---------------------------- MODULE Spec2Model ----------------------------
(***************************************************************************)
(* Model of the TCG scanner client: the Redux collection and scanner       *)
(* slices, the collection and scanner view models, the                     *)
(* useCollectionViewModel hook with its load-on-mount and auto-save        *)
(* effects, StorageService on top of the AsyncStorage key-value            *)
(* collaborator, and the recognition pipeline (CameraService.recognizeCard *)
(* over XimilarApiService.gradeCard).                                      *)
(*                                                                         *)
(* Specifications, all over the same variables:                            *)
(*   Spec, SpecReliable, SpecLive  the screens, the hook and AsyncStorage  *)
(*   SpecStore                     the collection slice's dispatches       *)
(*   SpecAdd                       add flows interleaved                   *)
(*   SpecScan                      scans and recognizeCard                 *)
(*   SpecStorage                   StorageService calls over stored text   *)
(* Confidences are in hundredths, grades in tenths.                        *)
(***************************************************************************)
EXTENDS Integers, Sequences, FiniteSets, Bags, TLC

VARIABLES
    collection,   \* Redux state.collection: [cards, isLoading, error]
    storage,      \* AsyncStorage contents: key -> stored text
    inflight,     \* bag of StorageService calls awaiting AsyncStorage
    hook,         \* per screen: the useCollectionViewModel instance (refs, view model)
    lastChange,   \* history: the last dispatch that changed the cards (addCard or removeCard), and
                  \* whether saveCollection was called since with the cards as they are after it
    saveReport,   \* history: how the last completed view-model / effect save ended
    flow,         \* add flows between building the payload and dispatching it
    disturbed,    \* history: a removeCard was dispatched while an add flow was in flight
    adds,         \* history: per id, addCard dispatches since the id was last absent (-1: unknown)
    scanner,      \* Redux state.scanner: [scanResult, isScanning, lastScannedCard]
    scan,         \* the scanWithCamera / scanFromLibrary call in progress and the await it is at
    recognition,  \* history: the last CameraService.recognizeCard call, its input and result,
                  \* and how the scan that made it ended
    call,         \* history: the last StorageService call made on its own, and its result
    settingsState,  \* Redux state.settings: [settings, isLoading]
    settingsHook,   \* the useSettingsViewModel instance of the settings screen
    settingsLog,    \* history: toggles, loads and saves of the settings
    lastDispatch,   \* history: the last addCard / removeCard dispatched to the collection
                    \* slice on its own, and the cards before it
    grading,        \* history: the last call into the grading services made on its own,
                    \* the records it was given and its result
    recognized      \* history: the last two CameraService.recognizeCard calls made on
                    \* their own, each with its input, its instant and its result

vars == <<collection, storage, inflight, hook, lastChange, saveReport, flow, disturbed, adds,
          scanner, scan, recognition, call, settingsState, settingsHook, settingsLog,
          lastDispatch, grading, recognized>>

settingsVars == <<settingsState, settingsHook, settingsLog>>

persistVars == <<storage, inflight, hook, lastChange, saveReport>>
flowVars == <<flow, disturbed>>
scanVars == <<scanner, scan, recognition>>

---------------------------------------------------------------------------
(* Bounds of the model *)

MaxQty == 2          \* adds to an entry stop at this quantity
MaxInflight == 2     \* StorageService calls awaiting AsyncStorage at once
MaxSettingsCalls == 4   \* settings calls awaiting AsyncStorage at once

NoCard == "none"
Ids == {"card_1", "card_2"}          \* card ids
Shown == {"card_1"}                  \* the card handled in the screen-level runs
Timestamps == {"T1", "T2"}           \* values of new Date().toISOString()
Screens == {"CollectionScreen", "CardDetailsScreen"}
Flows == {"ScannerViewModel", "CollectionViewModel"}

---------------------------------------------------------------------------
(* Collection entries and derived counts *)

CollectionCard(id, quantity, dateAdded) ==
    [id |-> id, quantity |-> quantity, dateAdded |-> dateAdded]

RECURSIVE SumQuantity(_)
SumQuantity(cs) ==
    IF cs = <<>> THEN 0 ELSE Head(cs).quantity + SumQuantity(Tail(cs))

getTotalCards(cs) == SumQuantity(cs)

uniqueCards(cs) == Len(cs)

IdsOf(cs) == {cs[i].id : i \in 1..Len(cs)}

\* Array.prototype.find: index of the first entry with this id, 0 if none
FindIndex(cs, id) ==
    IF \E i \in 1..Len(cs) : cs[i].id = id
    THEN CHOOSE i \in 1..Len(cs) :
             cs[i].id = id /\ \A j \in 1..(i - 1) : cs[j].id # id
    ELSE 0

QuantityOf(cs, id) ==
    IF FindIndex(cs, id) = 0 THEN 0 ELSE cs[FindIndex(cs, id)].quantity

---------------------------------------------------------------------------
(* collectionSlice reducers, over state.collection *)

initialState == [cards |-> <<>>, isLoading |-> FALSE, error |-> "undefined"]

setLoading(state, payload) == [state EXCEPT !.isLoading = payload]

setCards(state, payload) == [state EXCEPT !.cards = payload, !.isLoading = FALSE]

\* a removal that also drops the entries after the removed one
removeCard_truncate(state, payload) ==
    [state EXCEPT !.cards =
        IF FindIndex(@, payload) = 0 THEN @ ELSE SubSeq(@, 1, FindIndex(@, payload) - 1)]

\* an add that replaces the entry by the payload, with the quantity added up
addCard_replace(state, payload) ==
    LET i == FindIndex(state.cards, payload.id)
    IN IF i # 0
       THEN [state EXCEPT !.cards[i] =
                [payload EXCEPT !.quantity = state.cards[i].quantity + payload.quantity]]
       ELSE [state EXCEPT !.cards = Append(@, payload)]

\* a reducer that never merges: every add appends
addCard_alwaysPush(state, payload) ==
    [state EXCEPT !.cards = Append(@, payload)]

addCard(state, payload) ==
    LET i == FindIndex(state.cards, payload.id)
    IN IF i # 0
       THEN [state EXCEPT !.cards[i].quantity = @ + payload.quantity]
       ELSE [state EXCEPT !.cards = Append(@, payload)]

removeCard(state, payload) ==
    [state EXCEPT !.cards = SelectSeq(@, LAMBDA card : card.id # payload)]

\* CollectionModel.addCard(card) at time `now`, over the model's cards
CollectionModel_addCard(cards, card, now) ==
    LET i == FindIndex(cards, card.id)
    IN IF i # 0
       THEN [cards EXCEPT ![i].quantity = @ + 1]
       ELSE Append(cards, [quantity |-> 1, dateAdded |-> now] @@ card)

\* CollectionModel.removeCard(cardId)
CollectionModel_removeCard(cards, cardId) ==
    SelectSeq(cards, LAMBDA card : card.id # cardId)

setError(state, payload) == [state EXCEPT !.error = payload, !.isLoading = FALSE]

---------------------------------------------------------------------------
(* JavaScript values *)

\* a JavaScript number or undefined, and `v || 0`
undefined == [defined |-> FALSE, n |-> 0]
Num(n) == [defined |-> TRUE, n |-> n]
OrZero(v) == IF v.defined /\ v.n # 0 THEN v.n ELSE 0

\* the JavaScript null
null == [type |-> "null"]

\* a card as far as the collection reads it: apiData.grade is a number in
\* tenths, or undefined for a card without apiData
Card(id, name, price, grade) == [id |-> id, name |-> name, price |-> price, grade |-> grade]

\* {...card, quantity, dateAdded}
Entry(card, quantity, dateAdded) ==
    [quantity |-> quantity, dateAdded |-> dateAdded] @@ card

\* reading member k of an object: undefined when the object lacks it
Get(obj, k) == IF k \in DOMAIN obj THEN obj[k] ELSE undefined

---------------------------------------------------------------------------
(* JSON text as AsyncStorage holds it, and the values JSON.parse returns   *)

Null == [kind |-> "null", form |-> "none", body |-> <<>>]        \* getItem finds no value
Garbage == [kind |-> "garbage", form |-> "none", body |-> <<>>]  \* text that JSON.parse rejects

\* a JavaScript value with its type: an array of entries, or an object
Array(items) == [type |-> "array", items |-> items]
Object(fields) == [type |-> "object", fields |-> fields]

UserSettings(darkMode, notifications, offlineMode) ==
    [darkMode |-> darkMode, notifications |-> notifications, offlineMode |-> offlineMode]

\* the members of a collection entry, in the order {...card, quantity,
\* dateAdded} gives them; `grade` is apiData.grade, which a card may lack
Keys == <<"id", "name", "price", "grade", "quantity", "dateAdded">>

OptionalKeys == {"grade"}

\* a stringify that writes the card's members only
EntryText_cardOnly(c) ==
    LET present == SelectSeq(Keys, LAMBDA k :
                       k \in DOMAIN c /\ k \notin {"quantity", "dateAdded"})
    IN [i \in 1..Len(present) |-> <<present[i], c[present[i]]>>]

\* JSON.stringify of one entry: the members it has, those holding undefined
\* left out
EntryText(c) ==
    LET present == SelectSeq(Keys, LAMBDA k :
                       k \in DOMAIN c /\ ~(k \in OptionalKeys /\ c[k] = undefined))
    IN [i \in 1..Len(present) |-> <<present[i], c[present[i]]>>]

SettingsText(s) ==
    << <<"darkMode", s.darkMode>>, <<"notifications", s.notifications>>,
       <<"offlineMode", s.offlineMode>> >>

Member(obj, key) == (CHOOSE i \in 1..Len(obj) : obj[i][1] = key)

\* JSON.parse of one entry: an object with the members the text has
EntryOfText(obj) ==
    [k \in {obj[i][1] : i \in 1..Len(obj)} |-> obj[Member(obj, k)][2]]

SettingsOfText(obj) ==
    UserSettings(obj[Member(obj, "darkMode")][2], obj[Member(obj, "notifications")][2],
                 obj[Member(obj, "offlineMode")][2])

\* JSON.stringify of a list of collection entries
JSON_stringify(cs) ==
    [kind |-> "json", form |-> "array", body |-> [i \in 1..Len(cs) |-> EntryText(cs[i])]]

\* JSON.stringify of a settings object
JSON_stringify_settings(settings) ==
    [kind |-> "json", form |-> "object", body |-> SettingsText(settings)]

\* JSON.parse: throws on text that is not JSON, and otherwise returns whatever
\* value the text denotes
JSON_parse(text) ==
    IF text.kind # "json" THEN [threw |-> TRUE, value |-> Array(<<>>)]
    ELSE IF text.form = "array"
    THEN [threw |-> FALSE,
          value |-> Array([i \in 1..Len(text.body) |-> EntryOfText(text.body[i])])]
    ELSE [threw |-> FALSE, value |-> Object(SettingsOfText(text.body))]

---------------------------------------------------------------------------
(* StorageService over AsyncStorage.  A call is split at its await: the    *)
(* part before it builds the request, the part after it sees whether       *)
(* AsyncStorage failed.                                                    *)

COLLECTION_KEY == "@tcg_collection"
SETTINGS_KEY == "@tcg_settings"

\* saveCollection up to the await: stringify, then setItem is issued
StorageService_saveCollection_request(cards, caller) ==
    [fn |-> "saveCollection", caller |-> caller, value |-> JSON_stringify(cards)]

\* a saveCollection whose catch logs the error and returns
StorageService_saveCollection_swallow(st, req, asyncStorageFails) ==
    IF asyncStorageFails
    THEN [outcome |-> "resolved", error |-> "none", storage |-> st]
    ELSE [outcome |-> "resolved", error |-> "none",
          storage |-> [st EXCEPT ![COLLECTION_KEY] = req.value]]

\* saveCollection after the await
StorageService_saveCollection(st, req, asyncStorageFails) ==
    IF asyncStorageFails
    THEN [outcome |-> "rejected", error |-> "Failed to save collection", storage |-> st]
    ELSE [outcome |-> "resolved", error |-> "none",
          storage |-> [st EXCEPT ![COLLECTION_KEY] = req.value]]

StorageService_loadCollection_request(caller) ==
    [fn |-> "loadCollection", caller |-> caller, value |-> Null]

\* loadCollection after the await: the resolved value
StorageService_loadCollection(st, asyncStorageFails) ==
    IF asyncStorageFails
    THEN [outcome |-> "resolved", value |-> Array(<<>>)]
    ELSE LET jsonValue == st[COLLECTION_KEY]
         IN IF jsonValue # Null
            THEN IF JSON_parse(jsonValue).threw
                 THEN [outcome |-> "resolved", value |-> Array(<<>>)]
                 ELSE [outcome |-> "resolved", value |-> JSON_parse(jsonValue).value]
            ELSE [outcome |-> "resolved", value |-> Array(<<>>)]

StorageService_saveSettings_request(settings, caller) ==
    [fn |-> "saveSettings", caller |-> caller, value |-> JSON_stringify_settings(settings)]

StorageService_saveSettings(st, req, asyncStorageFails) ==
    IF asyncStorageFails
    THEN [outcome |-> "rejected", error |-> "Failed to save settings", storage |-> st]
    ELSE [outcome |-> "resolved", error |-> "none",
          storage |-> [st EXCEPT ![SETTINGS_KEY] = req.value]]

\* the settings loadSettings falls back to
defaultSettings == UserSettings(FALSE, TRUE, FALSE)

StorageService_loadSettings(st, asyncStorageFails) ==
    IF asyncStorageFails
    THEN [outcome |-> "resolved", value |-> Object(defaultSettings)]
    ELSE LET jsonValue == st[SETTINGS_KEY]
         IN IF jsonValue # Null
            THEN IF JSON_parse(jsonValue).threw
                 THEN [outcome |-> "resolved", value |-> Object(defaultSettings)]
                 ELSE [outcome |-> "resolved", value |-> JSON_parse(jsonValue).value]
            ELSE [outcome |-> "resolved", value |-> Object(defaultSettings)]

\* clearAll: multiRemove of both keys
StorageService_clearAll(st, asyncStorageFails) ==
    IF asyncStorageFails
    THEN [outcome |-> "rejected", error |-> "Failed to clear storage", storage |-> st]
    ELSE [outcome |-> "resolved", error |-> "none",
          storage |-> [k \in DOMAIN st |->
                         IF k \in {COLLECTION_KEY, SETTINGS_KEY} THEN Null ELSE st[k]]]

---------------------------------------------------------------------------
(* View models and the hook *)

\* CollectionViewModel.saveCollection: how the promise it returns ends
CollectionViewModel_saveCollection(serviceResult) ==
    [outcome |-> "resolved", dispatched |-> "none"]

\* the .then/.catch chain of the auto-save effect
AutoSave_chain(serviceResult) ==
    [outcome |-> "resolved", dispatched |-> "none"]

\* a screen's hook instance: its two refs, the cards its view model was built
\* with at the last render, and the card the screen was opened for
Unmounted ==
    [mounted |-> FALSE, hasLoadedRef |-> FALSE, prevCardsRef |-> <<>>,
     cards |-> <<>>, card |-> NoCard]

\* a payload that carries the scanned card's own count instead of 1
ScannerViewModel_collectionCard_two(id, t) == CollectionCard(id, 2, t)

\* the payload both view models build: {...card, quantity: 1, dateAdded: now}
ScannerViewModel_collectionCard(id, t) == CollectionCard(id, 1, t)

CollectionViewModel_collectionCard(id, t) == CollectionCard(id, 1, t)

\* an add that writes back the quantity its flow saw when it started, plus one
dispatchAddCard_fromSnapshot(state, f) ==
    LET i == FindIndex(state.cards, f.payload.id)
    IN IF i # 0
       THEN [state EXCEPT !.cards[i].quantity = f.startQty + f.payload.quantity]
       ELSE [state EXCEPT !.cards = Append(@, f.payload)]

\* this.dispatch(addCard(collectionCard)) of an add flow f: the reducer runs on
\* the store's state as it is at the dispatch
dispatchAddCard(state, f) == addCard(state, f.payload)

\* the auto-save effect body for a hook rendering `cards`
cardsChanged(h, cards) == JSON_stringify(cards) # JSON_stringify(h.prevCardsRef)

Issue(bag, req) == bag (+) SetToBag({req})

\* the history of the last change after a call of saveCollection, given whether
\* the call's argument is the store's cards
Saved(change, ofCurrentCards) ==
    IF ofCurrentCards /\ change.save = "unsaved"
    THEN [change EXCEPT !.save = "saveIssued"] ELSE change

NoChange == [by |-> "none", save |-> "none"]

Changed(by) == [by |-> by, save |-> "unsaved"]

Idle == [pc |-> "idle", payload |-> CollectionCard(NoCard, 0, "T1"), startQty |-> 0]

NoReport == [failed |-> FALSE, outcome |-> "resolved"]

TypeOK ==
    /\ collection.isLoading \in BOOLEAN
    /\ \A i \in 1..Len(collection.cards) : collection.cards[i].id \in Ids
    /\ lastChange.save \in {"none", "unsaved", "saveIssued"}
    /\ disturbed \in BOOLEAN

---------------------------------------------------------------------------
(* Images, the grading collaborators and XimilarApiService.gradeCard       *)

\* image references; `imageUrl.trim() === ''` holds for the first two
ImageUris ==
    {"", "   ", "file:///photos/card.jpg", "data:image/jpeg;base64,AAAA",
     "https://example.com/card.jpg", "card.jpg"}

BlankUris == {"", "   "}

\* what uploadBase64Image can resolve to
UploadedUrls == {"https://i.ibb.co/card_image.jpg", "ftp://0x0.st/card_image.jpg"}

\* further references: web URLs, local paths and data URIs of other shapes
OtherUris ==
    {"http://example.com/card.jpg", "https://example.com/data/card.jpg",
     "/var/mobile/photo.jpg", "content://media/external/images/1",
     "data:image/png;base64,AA/data/AA", "data:text/plain,hello"}

\* what the classification reads of a string: the prefix it starts with,
\* which of '/var/mobile/', '/data/' and 'base64,' it includes, and whether
\* what follows 'base64,' is made of base64 characters
UriText(prefix, includes, base64Part) ==
    [prefix |-> prefix, includes |-> includes, base64Part |-> base64Part]

TextOf ==
    [uri \in ImageUris \cup UploadedUrls \cup OtherUris |->
        CASE uri = "file:///photos/card.jpg" -> UriText("file://", {}, FALSE)
          [] uri = "data:image/jpeg;base64,AAAA" -> UriText("data:", {"base64,"}, TRUE)
          [] uri = "https://example.com/card.jpg" -> UriText("https://", {}, FALSE)
          [] uri = "https://i.ibb.co/card_image.jpg" -> UriText("https://", {}, FALSE)
          [] uri = "ftp://0x0.st/card_image.jpg" -> UriText("ftp://", {}, FALSE)
          [] uri = "http://example.com/card.jpg" -> UriText("http://", {}, FALSE)
          [] uri = "https://example.com/data/card.jpg" -> UriText("https://", {"/data/"}, FALSE)
          [] uri = "/var/mobile/photo.jpg" -> UriText("/", {"/var/mobile/"}, FALSE)
          [] uri = "content://media/external/images/1" -> UriText("content://", {}, FALSE)
          [] uri = "data:image/png;base64,AA/data/AA" ->
                 UriText("data:", {"base64,", "/data/"}, TRUE)
          [] uri = "data:text/plain,hello" -> UriText("data:", {}, FALSE)
          [] OTHER -> UriText("", {}, FALSE)]

startsWith(uri, prefix) == TextOf[uri].prefix = prefix
includes(uri, part) == part \in TextOf[uri].includes

isLocalFileUri(uri) ==
    IF uri = "" THEN FALSE
    ELSE \/ startsWith(uri, "file://")
         \/ startsWith(uri, "/")
         \/ includes(uri, "/var/mobile/") \/ includes(uri, "/data/")
         \/ startsWith(uri, "content://")

isValidBase64DataUri(uri) ==
    IF uri = "" THEN FALSE
    ELSE IF ~startsWith(uri, "data:") THEN FALSE
    ELSE IF ~includes(uri, "base64,") THEN FALSE
    ELSE TextOf[uri].base64Part

isWebUrl(uri) ==
    IF uri = "" THEN FALSE
    ELSE startsWith(uri, "http://") \/ startsWith(uri, "https://")

Confidences == {29, 30, 31}      \* detection probabilities, in hundredths

Instants == {1, 2}               \* values of Date.now() during a call

\* record.grades: each grade a number in tenths, or undefined
XimilarGrades(final, corners, edges, surface, centering) ==
    [final |-> final, corners |-> corners, edges |-> edges, surface |-> surface,
     centering |-> centering]

NoGrades == XimilarGrades(undefined, undefined, undefined, undefined, undefined)

\* an entry of record._objects
XimilarObject(name, prob) == [name |-> name, prob |-> prob]

\* record.card[0]._tags: per category the name of its first tag, or "absent"
XimilarTags(damaged, autograph, side) ==
    [Damaged |-> damaged, Autograph |-> autograph, Side |-> side,
     Category |-> "absent", Subcategory |-> "absent"]

\* tags with a Category and a Subcategory tag as well
CategoryTags(tags, category, subcategory) ==
    [tags EXCEPT !.Category = category, !.Subcategory = subcategory]

\* a record of the grading response: whether it has grades, the grades, the
\* detected objects, the tags
RawRecord(hasGrades, grades, objects, tags) ==
    [hasGrades |-> hasGrades, grades |-> grades, objects |-> objects, tags |-> tags]

\* a record with grades.final only (if any), the detected Card object with
\* its probability (if any), and the Damaged tag (if any)
XimilarRecord(hasGrades, final, prob, damaged) ==
    RawRecord(hasGrades,
              XimilarGrades(final, undefined, undefined, undefined, undefined),
              IF prob = undefined THEN <<>> ELSE <<XimilarObject("Card", prob)>>,
              XimilarTags(damaged, "absent", "absent"))

NoRecord == XimilarRecord(FALSE, undefined, undefined, "absent")

Records ==
    {XimilarRecord(FALSE, undefined, Num(31), "OK"),
     XimilarRecord(TRUE, undefined, Num(31), "absent")}
    \cup {XimilarRecord(TRUE, Num(95), p, "OK") :
            p \in {undefined} \cup {Num(c) : c \in Confidences}}

\* response.data of axios.post: missing, without records, or with one record
Datas ==
    {[records |-> "undefined", record |-> NoRecord],
     [records |-> "empty", record |-> NoRecord]}
    \cup {[records |-> "one", record |-> r] : r \in Records}

\* how axios.post can fail: an AxiosError by response status or by code
PostErrors == {"401", "429", "ECONNABORTED", "400", "500", "503", "noResponse", "404"}

\* the AxiosError of each: the status of its response (0: no response) and
\* its code
AxiosError ==
    [p \in PostErrors |->
        CASE p = "401" -> [status |-> 401, code |-> "ERR_BAD_REQUEST"]
          [] p = "429" -> [status |-> 429, code |-> "ERR_BAD_REQUEST"]
          [] p = "400" -> [status |-> 400, code |-> "ERR_BAD_REQUEST"]
          [] p = "404" -> [status |-> 404, code |-> "ERR_BAD_REQUEST"]
          [] p = "500" -> [status |-> 500, code |-> "ERR_BAD_RESPONSE"]
          [] p = "503" -> [status |-> 503, code |-> "ERR_BAD_RESPONSE"]
          [] p = "ECONNABORTED" -> [status |-> 0, code |-> "ECONNABORTED"]
          [] p = "noResponse" -> [status |-> 0, code |-> "ERR_NETWORK"]]

\* what the collaborators do during one gradeCard call: the file conversion,
\* the upload, and the post with the response data it brings
\* and the instant Date.now() gives while it runs
EnvsAt(instants) ==
    {[convert |-> "throws", upload |-> "throws", post |-> "200", data |-> d, now |-> t] :
        d \in Datas, t \in instants}
    \cup
    {[convert |-> "ok", upload |-> u, post |-> "200", data |-> d, now |-> t] :
        u \in {"throws"} \cup UploadedUrls, d \in Datas, t \in instants}
    \cup
    {[convert |-> "ok", upload |-> "https://i.ibb.co/card_image.jpg", post |-> p,
      data |-> [records |-> "undefined", record |-> NoRecord], now |-> t] :
        p \in PostErrors, t \in instants}

\* the calls a scan makes are taken at one instant: the scan flow reads
\* nothing of the card that depends on it
Envs == EnvsAt({1})

\* how a call ends: resolved with a value, or rejected with an error of a
\* class (Error or AxiosError) and a message
Resolved(value) == [outcome |-> "resolved", class |-> "none", value |-> value, error |-> <<>>]
Throw(class, error) == [outcome |-> "rejected", class |-> class, value |-> null, error |-> error]
Rejected(error) == Throw("Error", error)

\* record._objects?.find(obj => obj.name === 'Card'): its index, 0 if none
FindCard(objects) ==
    IF \E i \in 1..Len(objects) : objects[i].name = "Card"
    THEN CHOOSE i \in 1..Len(objects) :
             objects[i].name = "Card" /\ \A j \in 1..(i - 1) : objects[j].name # "Card"
    ELSE 0

\* the result object processGradingResponse builds from a record with grades
GradingResultOf(record) ==
    LET grades == record.grades
        cardObject == FindCard(record.objects)
    IN [type |-> "grading",
        finalGrade |-> OrZero(grades.final),
        cornerGrade |-> OrZero(grades.corners),
        edgeGrade |-> OrZero(grades.edges),
        surfaceGrade |-> OrZero(grades.surface),
        centeringGrade |-> OrZero(grades.centering),
        confidence |-> IF cardObject = 0 THEN 0
                       ELSE OrZero(record.objects[cardObject].prob),
        category |-> IF record.tags.Category \in {"absent", ""} THEN "Trading Card"
                     ELSE record.tags.Category,
        subcategory |-> record.tags.Subcategory,     \* "absent": undefined
        isDamaged |-> record.tags.Damaged # "OK",
        hasAutograph |-> record.tags.Autograph = "Yes",
        isfront |-> record.tags.Side = "Front"]

\* a normalization that takes a card for damaged only when a tag says so
processGradingResponse_damagedIfTagged(record) ==
    IF ~record.hasGrades THEN Rejected(<<"No grading data found in the response">>)
    ELSE Resolved([GradingResultOf(record) EXCEPT
                      !.isDamaged = record.tags.Damaged \notin {"OK", "absent"}])

\* a normalization that clamps the final grade to the scale 0..10
processGradingResponse_clamped(record) ==
    IF ~record.hasGrades THEN Rejected(<<"No grading data found in the response">>)
    ELSE Resolved([GradingResultOf(record) EXCEPT
                      !.finalGrade = IF @ > 100 THEN 100 ELSE IF @ < 0 THEN 0 ELSE @])

processGradingResponse(record) ==
    IF ~record.hasGrades THEN Rejected(<<"No grading data found in the response">>)
    ELSE Resolved(GradingResultOf(record))

\* processGradingResponse of MockApiService.ts: absent grades read as {},
\* the confidence taken from the first detected object
MockApiService_processGradingResponse(record) ==
    LET grades == IF record.hasGrades THEN record.grades ELSE NoGrades
    IN [type |-> "grading",
        finalGrade |-> OrZero(grades.final),
        cornerGrade |-> OrZero(grades.corners),
        edgeGrade |-> OrZero(grades.edges),
        surfaceGrade |-> OrZero(grades.surface),
        centeringGrade |-> OrZero(grades.centering),
        confidence |-> IF record.objects = <<>> THEN 0 ELSE OrZero(record.objects[1].prob),
        category |-> IF record.tags.Category \in {"absent", ""} THEN "Unknown"
                     ELSE record.tags.Category,
        isDamaged |-> record.tags.Damaged # "OK",
        hasAutograph |-> record.tags.Autograph = "Yes",
        isfront |-> record.tags.Side = "Front"]

\* gradeMultipleCards of MockApiService.ts, for the records the response holds
MockApiService_gradeMultipleCards(imageUrls, post, records) ==
    IF imageUrls = <<>>
    THEN Rejected(<<"Batch grading failed: ",
                    "At least one image URL is required for batch grading">>)
    ELSE IF post # "200"
    THEN Rejected(<<"Batch grading failed: ", post>>)
    ELSE Resolved([i \in 1..Len(records) |->
                      MockApiService_processGradingResponse(records[i])])

\* XimilarApiService.interpretGrade(grade) of XimilarApiService.ts, the grade
\* a number in tenths, or undefined or null
interpretGrade(grade) ==
    IF ~grade.defined THEN "Not Graded"
    ELSE LET clampedAbove == IF grade.n < 100 THEN grade.n ELSE 100
             normalizedGrade == IF clampedAbove > 0 THEN clampedAbove ELSE 0
         IN IF normalizedGrade >= 100 THEN "Gem Mint"
            ELSE IF normalizedGrade >= 95 THEN "Gem Mint"
            ELSE IF normalizedGrade >= 90 THEN "Mint"
            ELSE IF normalizedGrade >= 85 THEN "Near Mint+"
            ELSE IF normalizedGrade >= 80 THEN "Near Mint/Mint"
            ELSE IF normalizedGrade >= 75 THEN "Near Mint"
            ELSE IF normalizedGrade >= 70 THEN "Excellent"
            ELSE IF normalizedGrade >= 65 THEN "Very Good+"
            ELSE IF normalizedGrade >= 60 THEN "Very Good"
            ELSE IF normalizedGrade >= 55 THEN "Good+"
            ELSE IF normalizedGrade >= 50 THEN "Good"
            ELSE IF normalizedGrade >= 40 THEN "Fair"
            ELSE IF normalizedGrade >= 30 THEN "Poor"
            ELSE IF normalizedGrade >= 20 THEN "Damaged"
            ELSE IF normalizedGrade >= 10 THEN "Authentic (Damaged)"
            ELSE "Damaged"

\* interpretGrade(grade) of MockApiService.ts; every comparison with
\* undefined is false
MockApiService_interpretGrade(grade) ==
    IF ~grade.defined THEN "Authentic (Damaged)"
    ELSE IF grade.n >= 95 THEN "Gem Mint"
    ELSE IF grade.n >= 90 THEN "Mint"
    ELSE IF grade.n >= 85 THEN "Near Mint+"
    ELSE IF grade.n >= 80 THEN "Near Mint"
    ELSE IF grade.n >= 75 THEN "Excellent+"
    ELSE IF grade.n >= 70 THEN "Excellent"
    ELSE IF grade.n >= 65 THEN "Fine+"
    ELSE IF grade.n >= 60 THEN "Fine"
    ELSE IF grade.n >= 55 THEN "Very Good+"
    ELSE IF grade.n >= 50 THEN "Very Good"
    ELSE IF grade.n >= 40 THEN "Good"
    ELSE IF grade.n >= 30 THEN "Fair"
    ELSE IF grade.n >= 20 THEN "Poor"
    ELSE "Authentic (Damaged)"

\* gradeCard, steps 1 to 3: the URL sent to the API, or the error thrown
processedImageUrl(imageUrl, env) ==
    IF imageUrl \in BlankUris
    THEN Rejected(<<"Image URL is required for grading">>)
    ELSE IF isLocalFileUri(imageUrl)
    THEN IF env.convert = "throws"
         THEN Rejected(<<"Failed to process local image file: ", "File does not exist">>)
         ELSE IF env.upload = "throws"
         THEN Rejected(<<"Failed to process local image file: ",
                         "Failed to upload image to temporary hosting">>)
         ELSE Resolved(env.upload)
    ELSE IF isValidBase64DataUri(imageUrl)
    THEN IF env.upload = "throws"
         THEN Rejected(<<"Failed to upload base64 image: ",
                         "Failed to upload image to temporary hosting">>)
         ELSE Resolved(env.upload)
    ELSE Resolved(imageUrl)

\* gradeCard, step 2: the branch taken for a reference
gradeCard_route(imageUrl) ==
    IF imageUrl \in BlankUris THEN "none"
    ELSE IF isLocalFileUri(imageUrl) THEN "convertFileUriToBase64, uploadBase64Image"
    ELSE IF isValidBase64DataUri(imageUrl) THEN "uploadBase64Image"
    ELSE "as-is"

\* gradeCard's try block: what it returns or throws
gradeCard_try(imageUrl, env) ==
    LET url == processedImageUrl(imageUrl, env)
    IN IF url.outcome = "rejected" THEN url
       ELSE IF ~isWebUrl(url.value)
       THEN Rejected(<<"Ximilar API requires a public HTTP/HTTPS image URL. Local files and base64 data must be uploaded first.">>)
       ELSE IF env.post # "200"
       THEN Throw("AxiosError", <<env.post>>)
       ELSE IF env.data.records # "one"
       THEN Rejected(<<"Invalid response from Ximilar API: No records found">>)
       ELSE processGradingResponse(env.data.record)

\* a catch block that looks for a missing response before the timeout code
gradeCard_catch_networkFirst(thrown) ==
    IF thrown.class # "AxiosError"
    THEN Rejected(<<"Card grading failed: ">> \o thrown.error)
    ELSE LET error == AxiosError[thrown.error[1]]
         IN IF error.status = 401
            THEN Rejected(<<"Authentication failed. Please check your API token.">>)
            ELSE IF error.status = 429
            THEN Rejected(<<"Rate limit exceeded. Please try again later.">>)
            ELSE IF error.status = 0
            THEN Rejected(<<"Network error. Please check your internet connection.">>)
            ELSE IF error.code = "ECONNABORTED"
            THEN Rejected(<<"Request timed out. Please check your internet connection.">>)
            ELSE IF error.status = 400
            THEN Rejected(<<"Invalid request. Please check the image format.">>)
            ELSE IF error.status >= 500
            THEN Rejected(<<"Ximilar API server error. Please try again later.">>)
            ELSE Rejected(<<"Card grading failed: ">> \o thrown.error)

\* gradeCard's catch block: the error it throws for what the try block
\* threw; an AxiosError carries the name of its case as its message
gradeCard_catch(thrown) ==
    IF thrown.class # "AxiosError"
    THEN Rejected(<<"Card grading failed: ">> \o thrown.error)
    ELSE LET error == AxiosError[thrown.error[1]]
         IN IF error.status = 401
            THEN Rejected(<<"Authentication failed. Please check your API token.">>)
            ELSE IF error.status = 429
            THEN Rejected(<<"Rate limit exceeded. Please try again later.">>)
            ELSE IF error.code = "ECONNABORTED"
            THEN Rejected(<<"Request timed out. Please check your internet connection.">>)
            ELSE IF error.status = 400
            THEN Rejected(<<"Invalid request. Please check the image format.">>)
            ELSE IF error.status # 0 /\ error.status >= 500
            THEN Rejected(<<"Ximilar API server error. Please try again later.">>)
            ELSE IF error.status = 0
            THEN Rejected(<<"Network error. Please check your internet connection.">>)
            ELSE Rejected(<<"Card grading failed: ">> \o thrown.error)

XimilarApiService_gradeCard(imageUrl, env) ==
    LET tried == gradeCard_try(imageUrl, env)
    IN IF tried.outcome = "rejected" THEN gradeCard_catch(tried) ELSE tried

---------------------------------------------------------------------------
(* CameraService.recognizeCard *)

\* a naming that puts the category even where there is a subcategory
generateCardNameFromGrading_categoryOnly(gradingResult) ==
    LET grade == gradingResult.finalGrade
        prefix == IF grade >= 90 THEN <<"Premium">>
                  ELSE IF grade >= 80 THEN <<"Mint">>
                  ELSE IF grade >= 70 THEN <<"Excellent">>
                  ELSE IF grade >= 50 THEN <<"Good">>
                  ELSE IF gradingResult.isDamaged THEN <<"Damaged">>
                  ELSE <<>>
    IN prefix \o <<gradingResult.category>>
              \o (IF gradingResult.hasAutograph THEN <<"(Autographed)">> ELSE <<>>)

\* generateCardNameFromGrading(gradingResult): the parts of the name, which
\* join(' ') puts one space apart; the grade is in tenths
generateCardNameFromGrading(gradingResult) ==
    LET category == IF gradingResult.category = "" THEN "Trading Card"
                    ELSE gradingResult.category
        subcategory == gradingResult.subcategory
        grade == gradingResult.finalGrade
        prefix == IF grade >= 90 THEN <<"Premium">>
                  ELSE IF grade >= 80 THEN <<"Mint">>
                  ELSE IF grade >= 70 THEN <<"Excellent">>
                  ELSE IF grade >= 50 THEN <<"Good">>
                  ELSE IF gradingResult.isDamaged THEN <<"Damaged">>
                  ELSE <<>>
        nameParts == prefix
                     \o (IF subcategory \notin {"absent", ""} THEN <<subcategory>>
                         ELSE <<category>>)
                     \o (IF gradingResult.hasAutograph THEN <<"(Autographed)">> ELSE <<>>)
    IN IF nameParts = <<>> THEN <<"Graded Card (", ToString(grade), "/10)">>
       ELSE nameParts

\* a banding whose edges are exclusive
mapConditionFromGrade_exclusive(grade) ==
    IF grade = 0 THEN "Unknown"
    ELSE IF grade > 100 THEN "Gem Mint"
    ELSE IF grade > 90 THEN "Mint"
    ELSE IF grade > 80 THEN "Near Mint/Mint"
    ELSE IF grade > 70 THEN "Near Mint"
    ELSE IF grade > 60 THEN "Excellent"
    ELSE IF grade > 50 THEN "Very Good"
    ELSE IF grade > 40 THEN "Good"
    ELSE IF grade > 30 THEN "Fair"
    ELSE IF grade > 20 THEN "Poor"
    ELSE "Damaged"

\* mapConditionFromGrade(grade), the grade in tenths; `!grade` holds for 0
mapConditionFromGrade(grade) ==
    IF grade = 0 THEN "Unknown"
    ELSE IF grade >= 100 THEN "Gem Mint"
    ELSE IF grade >= 90 THEN "Mint"
    ELSE IF grade >= 80 THEN "Near Mint/Mint"
    ELSE IF grade >= 70 THEN "Near Mint"
    ELSE IF grade >= 60 THEN "Excellent"
    ELSE IF grade >= 50 THEN "Very Good"
    ELSE IF grade >= 40 THEN "Good"
    ELSE IF grade >= 30 THEN "Fair"
    ELSE IF grade >= 20 THEN "Poor"
    ELSE "Damaged"

\* CardModel.mapGradeToCondition(grade), the grade a number in tenths or
\* undefined; `!grade` holds for undefined and for 0
mapGradeToCondition(grade) ==
    IF ~grade.defined \/ grade.n = 0 THEN "Unknown"
    ELSE IF grade.n >= 100 THEN "Gem Mint"
    ELSE IF grade.n >= 90 THEN "Mint"
    ELSE IF grade.n >= 80 THEN "Near Mint/Mint"
    ELSE IF grade.n >= 70 THEN "Near Mint"
    ELSE IF grade.n >= 60 THEN "Excellent"
    ELSE IF grade.n >= 50 THEN "Very Good"
    ELSE IF grade.n >= 40 THEN "Good"
    ELSE IF grade.n >= 30 THEN "Fair"
    ELSE IF grade.n >= 20 THEN "Poor"
    ELSE "Damaged"

\* CardModel.fromXimilarResponse(apiRecord, imageUri) at the instant `now`,
\* for an apiRecord with no member but _grade
fromXimilarResponse(apiRecord, imageUri, now) ==
    [id |-> <<"ximilar_", now>>, name |-> <<"Unknown Card">>,
     condition |-> mapGradeToCondition(apiRecord.grade),
     imageUrl |-> imageUri, price |-> 0]

\* CardModel.createMockCard() at the instant `now`, as far as recognizeCard's
\* results are read
createMockCard(now) ==
    [id |-> <<"mock_", now>>, name |-> <<"Pikachu">>, condition |-> "Near Mint",
     imageUrl |-> "https://images.pokemontcg.io/base1/25.png", price |-> 500]

FALLBACK_CONFIDENCE == 10

\* what recognizeCard's catch block returns
fallbackResult(imageUri, now) ==
    Resolved([card |-> [createMockCard(now) EXCEPT !.imageUrl = imageUri,
                                              !.name = <<"Unrecognized Card">>],
              confidence |-> FALLBACK_CONFIDENCE,
              gradingResult |-> null])

\* a recognizeCard without its catch block: the grading error reaches the caller
CameraService_recognizeCard_propagating(imageUri, env) ==
    LET graded == XimilarApiService_gradeCard(imageUri, env)
    IN IF graded.outcome = "rejected" THEN graded
       ELSE Resolved([card |-> [id |-> <<"ximilar_", env.now>>,
                                name |-> generateCardNameFromGrading(graded.value),
                                condition |-> mapConditionFromGrade(graded.value.finalGrade),
                                imageUrl |-> imageUri, price |-> 0],
                      confidence |-> graded.value.confidence,
                      gradingResult |-> graded.value])

CameraService_recognizeCard(imageUri, env) ==
    LET graded == XimilarApiService_gradeCard(imageUri, env)
    IN IF graded.outcome = "rejected" THEN fallbackResult(imageUri, env.now)
       ELSE Resolved([card |-> [id |-> <<"ximilar_", env.now>>,
                                name |-> generateCardNameFromGrading(graded.value),
                                condition |-> mapConditionFromGrade(graded.value.finalGrade),
                                imageUrl |-> imageUri, price |-> 0],
                      confidence |-> graded.value.confidence,
                      gradingResult |-> graded.value])

\* whether a collaborator or the normalization fails during a gradeCard call
Failure(imageUrl, env) ==
    \/ imageUrl \in BlankUris
    \/ isLocalFileUri(imageUrl) /\ (env.convert = "throws" \/ env.upload = "throws")
    \/ isValidBase64DataUri(imageUrl) /\ env.upload = "throws"
    \/ (isLocalFileUri(imageUrl) \/ isValidBase64DataUri(imageUrl)) /\ ~isWebUrl(env.upload)
    \/ ~isLocalFileUri(imageUrl) /\ ~isValidBase64DataUri(imageUrl) /\ ~isWebUrl(imageUrl)
    \/ env.post \in PostErrors
    \/ env.data.records # "one"
    \/ ~env.data.record.hasGrades

---------------------------------------------------------------------------
(* scannerSlice reducers, over state.scanner, and the scanner view model   *)

\* scanResult.error: a message, or nothing (undefined)
NoError == <<>>

scannerInitialState ==
    [scanResult |-> [card |-> null, confidence |-> 0, isLoading |-> FALSE,
                     error |-> NoError, gradingResult |-> [type |-> "undefined"]],
     isScanning |-> FALSE,
     lastScannedCard |-> null]

\* a start that keeps the error of the scan before
startScan_keepsError(state) ==
    [state EXCEPT !.isScanning = TRUE, !.scanResult.isLoading = TRUE]

startScan(state) ==
    [state EXCEPT !.isScanning = TRUE, !.scanResult.isLoading = TRUE,
                  !.scanResult.error = NoError]

completeScan(state, payload) ==
    [state EXCEPT !.isScanning = FALSE, !.scanResult.isLoading = FALSE,
                  !.scanResult.card = payload.card,
                  !.scanResult.confidence = payload.confidence,
                  !.scanResult.gradingResult = payload.gradingResult,
                  !.lastScannedCard = payload.card]

scanError(state, payload) ==
    [state EXCEPT !.isScanning = FALSE, !.scanResult.isLoading = FALSE,
                  !.scanResult.error = payload]

\* state.scanResult = initialState.scanResult: the initial object has no
\* error and no gradingResult member; lastScannedCard stays
resetScan(state) ==
    [state EXCEPT !.scanResult = scannerInitialState.scanResult,
                  !.isScanning = FALSE]

MIN_CONFIDENCE == 30

isValidConfidence(confidence) == confidence >= MIN_CONFIDENCE

\* a gate that also turns the threshold itself away
lowConfidence_inclusive(confidence) == confidence <= 30

\* the gate of scanWithCamera and scanFromLibrary: result.confidence < 0.3
lowConfidence(confidence) == confidence < 30

\* error.message.includes(word), for the messages that reach a scan's catch
Includes(message, word) ==
    \E i \in 1..Len(message) :
        <<message[i], word>> \in
            {<<"Camera module: network unreachable", "network">>,
             <<"Authentication failed. Please check your API token.", "API">>,
             <<"Ximilar API server error. Please try again later.", "API">>,
             <<"Ximilar API requires a public HTTP/HTTPS image URL. Local files and base64 data must be uploaded first.", "API">>,
             <<"Invalid response from Ximilar API: No records found", "API">>}

\* the catch block of a scan: prefix, then the detail chosen by the message
catchMessage(prefix, message) ==
    <<prefix>> \o (IF Includes(message, "network")
                   THEN <<"Please check your internet connection.">>
                   ELSE IF Includes(message, "timeout")
                   THEN <<"Request timed out. Please try again.">>
                   ELSE IF Includes(message, "API")
                   THEN <<"Card recognition service unavailable.">>
                   ELSE message)

\* the texts that differ between the two scan methods
ScanTexts ==
    [scanWithCamera |->
        [picker |-> "openCamera",
         noImage |-> <<"No image captured. Please try again.">>,
         lowConfidence |-> <<"Card recognition confidence is low. Please ensure good lighting and card visibility.">>,
         failed |-> "Failed to scan card. "],
     scanFromLibrary |->
        [picker |-> "openImageLibrary",
         noImage |-> <<"No image selected. Please choose an image.">>,
         lowConfidence |-> <<"Card recognition confidence is low. Please try a clearer image.">>,
         failed |-> "Failed to process image. "]]

\* ends: completeScan / scanError dispatches of the latest call; returned:
\* how its promise settled
NotScanning == [pc |-> "idle", via |-> "none", imageUri |-> "", ends |-> 0, returned |-> "none"]

\* the call after one completeScan or scanError: it returns (the try block's
\* return, its end, or the end of the catch block, which does not rethrow)
ScanReturns(s) == [NotScanning EXCEPT !.ends = s.ends + 1, !.returned = "resolved"]

NoRecognition ==
    [by |-> "none", imageUri |-> "", failed |-> FALSE, result |-> Resolved(null),
     dispatched |-> "none", message |-> NoError]

---------------------------------------------------------------------------
(* settingsSlice reducers, over state.settings, and the settings view model *)

settingsInitialState == [settings |-> UserSettings(FALSE, TRUE, FALSE), isLoading |-> FALSE]

setSettings(state, payload) == [state EXCEPT !.settings = payload]

toggleDarkMode(state) == [state EXCEPT !.settings.darkMode = ~@]

toggleNotifications(state) == [state EXCEPT !.settings.notifications = ~@]

toggleOfflineMode(state) == [state EXCEPT !.settings.offlineMode = ~@]

settings_setLoading(state, payload) == [state EXCEPT !.isLoading = payload]

\* the hook before the settings screen is first rendered; afterwards the
\* settings and isLoading its view model was built with, and whether the
\* store's settings and isLoading are still the ones it was built with
SettingsUnmounted ==
    [mounted |-> FALSE, settings |-> settingsInitialState.settings, loading |-> FALSE,
     rendered |-> FALSE]

\* who started a settings call, and the store's settings when it did
Caller(by, after) == [by |-> by, after |-> after]

StorageService_loadSettings_request(caller) ==
    [fn |-> "loadSettings", caller |-> caller, value |-> Null]

\* SettingsViewModel.saveSettings up to the await: it saves this.settings
SettingsViewModel_saveSettings_request(this, caller) ==
    StorageService_saveSettings_request(this.settings, caller)

NoSettingsLog ==
    [toggled |-> FALSE, afterToggle |-> settingsInitialState.settings,
     loaded |-> FALSE, lateLoad |-> FALSE, overwritten |-> FALSE,
     lastSave |-> [by |-> "none", after |-> settingsInitialState.settings, failed |-> FALSE]]

---------------------------------------------------------------------------
(* Initial state: the store as configured, nothing mounted; storage as a   *)
(* fresh install or an earlier session left it.                            *)

StoredAtStart ==
    {Null, Garbage, JSON_stringify(<<CollectionCard("card_1", 1, "T1")>>)}

\* no addCard / removeCard dispatched on its own yet
NoDispatch == [type |-> "none", id |-> NoCard, payload |-> null, before |-> <<>>]

\* no call into the grading services made on its own yet
NoRecognize == [imageUri |-> "", now |-> 0, failed |-> FALSE, result |-> Resolved(null)]
NoneRecognized == [previous |-> NoRecognize, last |-> NoRecognize]
NoRequest == [imageUrl |-> "", post |-> "none", route |-> "none", sent |-> "none"]
NoGrading == [fn |-> "none", request |-> NoRequest, records |-> <<>>, result |-> Resolved(null)]

\* no StorageService call made on its own yet
NoCall ==
    [fn |-> "none", arg |-> null, failed |-> FALSE, outcome |-> "resolved",
     error |-> "none", value |-> null, after |-> "none", afterArg |-> null]

\* the call made before this one, if it resolved: its name and argument
After(c) == IF c.outcome = "resolved" THEN [fn |-> c.fn, arg |-> c.arg]
            ELSE [fn |-> "none", arg |-> null]

\* everything but what AsyncStorage holds
InitRest ==
    /\ collection = initialState
    /\ inflight = EmptyBag
    /\ hook = [s \in Screens |-> Unmounted]
    /\ flow = [f \in Flows |-> Idle]
    /\ lastChange = NoChange
    /\ saveReport = NoReport
    /\ adds = [x \in Ids |-> 0]
    /\ disturbed = FALSE
    /\ scanner = scannerInitialState
    /\ scan = NotScanning
    /\ recognition = NoRecognition
    /\ call = NoCall
    /\ settingsState = settingsInitialState
    /\ settingsHook = SettingsUnmounted
    /\ settingsLog = NoSettingsLog
    /\ lastDispatch = NoDispatch
    /\ grading = NoGrading
    /\ recognized = NoneRecognized

Init ==
    /\ InitRest
    /\ \E stored \in StoredAtStart :
          storage = (COLLECTION_KEY :> stored) @@ (SETTINGS_KEY :> Null)

---------------------------------------------------------------------------
(* Hook: mount, re-render, unmount *)

Room(n) == BagCardinality(inflight) + n <= MaxInflight

\* The auto-save effect for a hook h rendering `cards`: the hook after the
\* effect and the save it issued, if any.
AutoSave(h, cards) ==
    IF h.hasLoadedRef /\ cardsChanged(h, cards)
    THEN [hook |-> [h EXCEPT !.prevCardsRef = cards],
          issued |-> {StorageService_saveCollection_request(cards, "effect")}]
    ELSE [hook |-> h, issued |-> {}]

\* First render of a screen that uses useCollectionViewModel, then its two
\* effects in order: load once (hasLoadedRef set before the load starts),
\* then the auto-save effect.
Mount(s, card) ==
    /\ ~hook[s].mounted
    /\ \/ s = "CollectionScreen" /\ card = NoCard
       \/ /\ s = "CardDetailsScreen"
          /\ hook["CollectionScreen"].mounted
          /\ card \in IdsOf(hook["CollectionScreen"].cards)
    /\ LET cards == collection.cards
           h0 == [Unmounted EXCEPT !.mounted = TRUE, !.cards = cards,
                                   !.card = card, !.hasLoadedRef = TRUE]
           eff == AutoSave(h0, cards)
       IN /\ Room(1 + Cardinality(eff.issued))
          /\ collection' = setLoading(collection, TRUE)
          /\ hook' = [hook EXCEPT ![s] = eff.hook]
          /\ inflight' = inflight
                           (+) SetToBag({StorageService_loadCollection_request(s)})
                           (+) SetToBag(eff.issued)
          /\ lastChange' = Saved(lastChange, eff.issued # {})
    /\ UNCHANGED <<recognized, settingsVars, lastDispatch, grading, storage, saveReport, flowVars, adds, scanVars, call>>

\* Re-render after the store's cards changed: a new view model over the new
\* cards, then the auto-save effect.
Render(s) ==
    /\ hook[s].mounted
    /\ hook[s].cards # collection.cards
    /\ LET cards == collection.cards
           eff == AutoSave([hook[s] EXCEPT !.cards = cards], cards)
       IN /\ Room(Cardinality(eff.issued))
          /\ hook' = [hook EXCEPT ![s] = eff.hook]
          /\ inflight' = inflight (+) SetToBag(eff.issued)
          /\ lastChange' = Saved(lastChange, eff.issued # {})
    /\ UNCHANGED <<recognized, settingsVars, lastDispatch, grading, collection, storage, saveReport, flowVars, adds, scanVars, call>>

\* navigation.goBack() from the card details screen
Unmount(s) ==
    /\ s = "CardDetailsScreen"
    /\ hook[s].mounted
    /\ hook' = [hook EXCEPT ![s] = Unmounted]
    /\ UNCHANGED <<recognized, settingsVars, lastDispatch, grading, collection, storage, inflight, lastChange, saveReport, flowVars, adds, scanVars, call>>

---------------------------------------------------------------------------
(* Adding and removing, from the screens *)

AddRecord(payload) ==
    [pc |-> "built", payload |-> payload,
     startQty |-> QuantityOf(collection.cards, payload.id)]

\* ScannerViewModel.addToCollection, from the scanner screen
addToCollection(id, t) ==
    /\ ~hook["CardDetailsScreen"].mounted
    /\ QuantityOf(collection.cards, id) < MaxQty
    /\ collection' = dispatchAddCard(collection, AddRecord(ScannerViewModel_collectionCard(id, t)))
    /\ lastChange' = Changed("addCard")
    /\ UNCHANGED <<recognized, settingsVars, lastDispatch, grading, storage, inflight, hook, saveReport, flowVars, adds, scanVars, call>>

\* CollectionViewModel.addCardToCollection, from the card details screen
addCardToCollection(t) ==
    /\ hook["CardDetailsScreen"].mounted
    /\ QuantityOf(collection.cards, hook["CardDetailsScreen"].card) < MaxQty
    /\ collection' = dispatchAddCard(collection,
                        AddRecord(CollectionViewModel_collectionCard(hook["CardDetailsScreen"].card, t)))
    /\ lastChange' = Changed("addCard")
    /\ UNCHANGED <<recognized, settingsVars, lastDispatch, grading, storage, inflight, hook, saveReport, flowVars, adds, scanVars, call>>

\* CollectionViewModel.removeCardFromCollection, from the collection screen:
\* dispatch removeCard, then saveCollection() over the view model's own cards
removeCardFromCollection(cardId) ==
    /\ hook["CollectionScreen"].mounted
    /\ ~hook["CardDetailsScreen"].mounted
    /\ cardId \in IdsOf(hook["CollectionScreen"].cards)
    /\ Room(1)
    /\ LET this == hook["CollectionScreen"]
           req == StorageService_saveCollection_request(this.cards, "saveCollection")
       IN /\ collection' = removeCard(collection, cardId)
          /\ inflight' = Issue(inflight, req)
          /\ lastChange' = Saved(IF collection'.cards # collection.cards
                                    THEN Changed("removeCard") ELSE lastChange,
                                  this.cards = collection'.cards)
    /\ UNCHANGED <<recognized, settingsVars, lastDispatch, grading, storage, hook, saveReport, flowVars, adds, scanVars, call>>

---------------------------------------------------------------------------
(* AsyncStorage completes a call, in any order, and may fail *)

SaveCompletes(req, asyncStorageFails) ==
    /\ BagIn(req, inflight)
    /\ req.fn = "saveCollection"
    /\ LET result == StorageService_saveCollection(storage, req, asyncStorageFails)
           ended == IF req.caller = "effect" THEN AutoSave_chain(result)
                    ELSE CollectionViewModel_saveCollection(result)
       IN /\ storage' = result.storage
          /\ saveReport' = [failed |-> result.outcome = "rejected",
                            outcome |-> ended.outcome]
          /\ collection' = IF ended.dispatched = "none" THEN collection
                           ELSE setError(collection, ended.dispatched)
    /\ inflight' = inflight (-) SetToBag({req})
    /\ UNCHANGED <<recognized, settingsVars, lastDispatch, grading, hook, lastChange, flowVars, adds, scanVars, call>>

\* CollectionViewModel.loadCollection after its await: setCards, then setLoading(false)
LoadCompletes(req, asyncStorageFails) ==
    /\ BagIn(req, inflight)
    /\ req.fn = "loadCollection"
    /\ LET savedCards == StorageService_loadCollection(storage, asyncStorageFails).value.items
       IN collection' = setLoading(setCards(collection, savedCards), FALSE)
    /\ inflight' = inflight (-) SetToBag({req})
    /\ UNCHANGED <<recognized, settingsVars, lastDispatch, grading, storage, hook, lastChange, saveReport, flowVars, adds, scanVars, call>>

Requests == BagToSet(inflight)

NextWith(Failures) ==
    \/ \E s \in Screens, card \in {NoCard} \cup Shown : Mount(s, card)
    \/ \E s \in Screens : Render(s)
    \/ \E s \in Screens : Unmount(s)
    \/ \E id \in Shown, t \in Timestamps : addToCollection(id, t)
    \/ \E t \in Timestamps : addCardToCollection(t)
    \/ \E cardId \in Shown : removeCardFromCollection(cardId)
    \/ \E req \in Requests, fails \in Failures : SaveCompletes(req, fails)
    \/ \E req \in Requests, fails \in Failures : LoadCompletes(req, fails)

Next == NextWith(BOOLEAN)

Spec == Init /\ [][Next]_vars

\* the same program over an AsyncStorage that never fails
NextReliable == NextWith({FALSE})

SpecReliable == Init /\ [][NextReliable]_vars

\* What runs without the user: React re-renders a mounted screen whose
\* selector value changed and runs its effects; AsyncStorage completes every
\* call.  Opening a screen, adding and removing are the user's to do or not.
Fairness ==
    /\ WF_vars(\E s \in Screens : Render(s))
    /\ WF_vars(\E req \in Requests, fails \in BOOLEAN : SaveCompletes(req, fails))
    /\ WF_vars(\E req \in Requests, fails \in BOOLEAN : LoadCompletes(req, fails))

SpecLive == Init /\ [][Next]_vars /\ Fairness

\* mutations have stopped: no call is awaiting AsyncStorage and every mounted
\* screen has rendered the store's cards and run its effects
Settled ==
    /\ inflight = EmptyBag
    /\ \A s \in Screens : hook[s].mounted => hook[s].cards = collection.cards

---------------------------------------------------------------------------
(* The store alone: the dispatches of the collection slice, with a save    *)
(* and a load that run to completion.                                      *)

Builders == {"ScannerViewModel", "CollectionViewModel"}

Payload(builder, id, t) ==
    IF builder = "ScannerViewModel" THEN ScannerViewModel_collectionCard(id, t)
    ELSE CollectionViewModel_collectionCard(id, t)

\* dispatch(addCard(collectionCard)) from either view model
StoreAdd(builder, id, t) ==
    /\ QuantityOf(collection.cards, id) < MaxQty
    /\ collection' = dispatchAddCard(collection, AddRecord(Payload(builder, id, t)))
    /\ adds' = [adds EXCEPT ![id] = IF @ >= 0 THEN @ + 1 ELSE @]
    /\ UNCHANGED <<recognized, settingsVars, lastDispatch, grading, persistVars, flowVars, scanVars, call>>

\* dispatch(removeCard(cardId))
StoreRemove(cardId) ==
    /\ collection' = removeCard(collection, cardId)
    /\ adds' = [adds EXCEPT ![cardId] = 0]
    /\ UNCHANGED <<recognized, settingsVars, lastDispatch, grading, persistVars, flowVars, scanVars, call>>

\* StorageService.saveCollection(cards) from request to completion
StoreSave(asyncStorageFails) ==
    /\ storage' = StorageService_saveCollection(storage,
                     StorageService_saveCollection_request(collection.cards, "effect"),
                     asyncStorageFails).storage
    /\ UNCHANGED <<recognized, settingsVars, lastDispatch, grading, collection, inflight, hook, lastChange, saveReport, flowVars, adds, scanVars, call>>

\* CollectionViewModel.loadCollection from request to completion
StoreLoad(asyncStorageFails) ==
    /\ LET savedCards == StorageService_loadCollection(storage, asyncStorageFails).value.items
       IN /\ collection' = setLoading(setCards(setLoading(collection, TRUE), savedCards), FALSE)
          /\ adds' = [x \in Ids |-> IF x \in IdsOf(savedCards) THEN -1 ELSE 0]
    /\ UNCHANGED <<recognized, settingsVars, lastDispatch, grading, persistVars, flowVars, scanVars, call>>

NextStore ==
    \/ \E b \in Builders, id \in Ids, t \in Timestamps : StoreAdd(b, id, t)
    \/ \E cardId \in Ids : StoreRemove(cardId)
    \/ \E fails \in BOOLEAN : StoreSave(fails)
    \/ \E fails \in BOOLEAN : StoreLoad(fails)

SpecStore == Init /\ [][NextStore]_vars

---------------------------------------------------------------------------
(* Add flows in flight: each flow builds its payload, then dispatches it   *)

Busy == \E f \in Flows : flow[f].pc # "idle"

\* addToCollection / addCardToCollection up to the dispatch
BeginAdd(f, id, t) ==
    /\ flow[f].pc = "idle"
    /\ QuantityOf(collection.cards, id) + Cardinality({g \in Flows : flow[g].pc = "built"}) < MaxQty
    /\ flow' = [flow EXCEPT ![f] = AddRecord(Payload(f, id, t))]
    /\ UNCHANGED <<recognized, settingsVars, lastDispatch, grading, collection, persistVars, disturbed, adds, scanVars, call>>

\* the dispatch of addCard that ends the flow
DispatchAdd(f) ==
    /\ flow[f].pc = "built"
    /\ collection' = dispatchAddCard(collection, flow[f])
    /\ flow' = [flow EXCEPT ![f].pc = "done"]
    /\ UNCHANGED <<recognized, settingsVars, lastDispatch, grading, persistVars, disturbed, adds, scanVars, call>>

\* the caller is done with the add
ReturnAdd(f) ==
    /\ flow[f].pc = "done"
    /\ flow' = [flow EXCEPT ![f] = Idle]
    /\ disturbed' = IF \A g \in Flows \ {f} : flow[g].pc = "idle" THEN FALSE ELSE disturbed
    /\ UNCHANGED <<recognized, settingsVars, lastDispatch, grading, collection, persistVars, adds, scanVars, call>>

\* dispatch(removeCard(cardId)) while flows may be in flight
FlowRemove(cardId) ==
    /\ collection' = removeCard(collection, cardId)
    /\ disturbed' = (disturbed \/ Busy)
    /\ UNCHANGED <<recognized, settingsVars, lastDispatch, grading, persistVars, flow, adds, scanVars, call>>

NextAdd ==
    \/ \E f \in Flows, id \in Ids, t \in Timestamps : BeginAdd(f, id, t)
    \/ \E f \in Flows : DispatchAdd(f)
    \/ \E f \in Flows : ReturnAdd(f)
    \/ \E cardId \in Ids : FlowRemove(cardId)

SpecAdd == Init /\ [][NextAdd]_vars

---------------------------------------------------------------------------
(* Scanning: scanWithCamera and scanFromLibrary, split at their two awaits, *)
(* and recognizeCard called on its own                                      *)

PickedUris == ImageUris \ BlankUris

\* how openCamera / openImageLibrary end: no image (permission denied,
\* cancelled, picker error), an image, or an exception of the picker
PickerResults ==
    {[outcome |-> "resolved", image |-> FALSE, uri |-> "", error |-> <<>>]}
    \cup {[outcome |-> "resolved", image |-> TRUE, uri |-> u, error |-> <<>>] : u \in PickedUris}
    \cup {[outcome |-> "rejected", image |-> FALSE, uri |-> "", error |-> <<m>>] :
            m \in {"launchCamera is not available", "Camera module: network unreachable"}}

\* a scan up to the await of the picker
BeginScan(via) ==
    /\ scan.pc = "idle"
    /\ scanner' = startScan(scanner)
    /\ scan' = [pc |-> ScanTexts[via].picker, via |-> via, imageUri |-> "",
                 ends |-> 0, returned |-> "none"]
    /\ UNCHANGED <<recognized, settingsVars, lastDispatch, grading, collection, persistVars, flowVars, adds, recognition, call>>

scanWithCamera == BeginScan("scanWithCamera")

scanFromLibrary == BeginScan("scanFromLibrary")

\* a picker return whose cancelled capture ends the call without a dispatch
PickerReturns_silentCancel(picked) ==
    /\ scan.pc \in {"openCamera", "openImageLibrary"}
    /\ IF picked.outcome = "rejected"
       THEN /\ scanner' = scanError(scanner,
                              catchMessage(ScanTexts[scan.via].failed, picked.error))
            /\ scan' = ScanReturns(scan)
       ELSE IF ~picked.image
       THEN /\ scanner' = scanner
            /\ scan' = [NotScanning EXCEPT !.returned = "resolved"]
       ELSE /\ scanner' = scanner
            /\ scan' = [scan EXCEPT !.pc = "recognizeCard", !.imageUri = picked.uri]
    /\ UNCHANGED <<recognized, settingsVars, lastDispatch, grading, collection, persistVars, flowVars, adds, recognition, call>>

\* from the picker's return to the await of recognizeCard, or to the end
PickerReturns(picked) ==
    /\ scan.pc \in {"openCamera", "openImageLibrary"}
    /\ IF picked.outcome = "rejected"
       THEN /\ scanner' = scanError(scanner,
                              catchMessage(ScanTexts[scan.via].failed, picked.error))
            /\ scan' = ScanReturns(scan)
       ELSE IF ~picked.image
       THEN /\ scanner' = scanError(scanner, ScanTexts[scan.via].noImage)
            /\ scan' = ScanReturns(scan)
       ELSE /\ scanner' = scanner
            /\ scan' = [scan EXCEPT !.pc = "recognizeCard", !.imageUri = picked.uri]
    /\ UNCHANGED <<recognized, settingsVars, lastDispatch, grading, collection, persistVars, flowVars, adds, recognition, call>>

\* from recognizeCard's return to the end of the scan
RecognitionReturns(env) ==
    /\ scan.pc = "recognizeCard"
    /\ LET result == CameraService_recognizeCard(scan.imageUri, env)
           ended ==
               IF result.outcome = "rejected"
               THEN [dispatched |-> "scanError",
                     message |-> catchMessage(ScanTexts[scan.via].failed, result.error)]
               ELSE IF lowConfidence(result.value.confidence)
               THEN [dispatched |-> "scanError",
                     message |-> ScanTexts[scan.via].lowConfidence]
               ELSE [dispatched |-> "completeScan", message |-> NoError]
       IN /\ scanner' = IF ended.dispatched = "completeScan"
                        THEN completeScan(scanner, result.value)
                        ELSE scanError(scanner, ended.message)
          /\ recognition' = [by |-> scan.via, imageUri |-> scan.imageUri,
                             failed |-> Failure(scan.imageUri, env), result |-> result,
                             dispatched |-> ended.dispatched, message |-> ended.message]
    /\ scan' = ScanReturns(scan)
    /\ UNCHANGED <<recognized, settingsVars, lastDispatch, grading, collection, persistVars, flowVars, adds, call>>

\* CameraService.recognizeCard called with any image reference, ahead of the
\* calls the scans make
recognizeCard(imageUri, env) ==
    /\ scan.pc = "idle"
    /\ recognition.by \in {"none", "recognizeCard"}
    /\ recognition' = [by |-> "recognizeCard", imageUri |-> imageUri,
                       failed |-> Failure(imageUri, env),
                       result |-> CameraService_recognizeCard(imageUri, env),
                       dispatched |-> "none", message |-> NoError]
    /\ UNCHANGED <<recognized, settingsVars, lastDispatch, grading, collection, persistVars, flowVars, adds, scanner, scan, call>>

NextScan ==
    \/ scanWithCamera
    \/ scanFromLibrary
    \/ \E picked \in PickerResults : PickerReturns(picked)
    \/ \E env \in Envs : RecognitionReturns(env)
    \/ \E imageUri \in ImageUris, env \in Envs : recognizeCard(imageUri, env)

SpecScan == Init /\ [][NextScan]_vars

\* What runs without the user once a scan is started: the permission request
\* and the picker call back or throw, and recognizeCard settles (its request
\* has a timeout).  Starting a scan is the user's to do or not.
ScanFairness ==
    /\ WF_vars(\E picked \in PickerResults : PickerReturns(picked))
    /\ WF_vars(\E env \in Envs : RecognitionReturns(env))

SpecScanLive == Init /\ [][NextScan]_vars /\ ScanFairness

Scanning == scan.pc # "idle"

\* C30: every scanWithCamera / scanFromLibrary call dispatches startScan and
\* then, whatever the picker (permission, capture) and the grading do,
\* eventually exactly one of completeScan or scanError: nothing is dispatched
\* before the call ends, the call ends, it ends resolved after one dispatch,
\* and isScanning is false again.
C30_ScanTerminates ==
    /\ [](Scanning => (scanner.isScanning /\ scan.ends = 0 /\ scan.returned = "none"))
    /\ []((~Scanning /\ scan.returned # "none") =>
             (scan.ends = 1 /\ scan.returned = "resolved" /\ ~scanner.isScanning))
    /\ Scanning ~> (~Scanning /\ scan.ends = 1 /\ ~scanner.isScanning)

\* a scan whose grading failed has ended with its scanError
C30_Witness ==
    /\ ~Scanning
    /\ scan.returned = "resolved"
    /\ recognition.by \in {"scanWithCamera", "scanFromLibrary"}
    /\ recognition.failed
    /\ recognition.dispatched = "scanError"
    /\ ~scanner.isScanning

---------------------------------------------------------------------------
(* The scanner slice on its own: its four reducers dispatched in any order *)

\* payloads of completeScan: a card, a confidence and no gradingResult
CompletePayloads ==
    {[card |-> createMockCard(now), confidence |-> confidence,
      gradingResult |-> [type |-> "undefined"]] :
        now \in Instants, confidence \in {MIN_CONFIDENCE, 95}}

\* payloads of scanError: the messages the view model dispatches
ErrorPayloads ==
    {ScanTexts[via].noImage : via \in {"scanWithCamera", "scanFromLibrary"}}
    \cup {ScanTexts["scanWithCamera"].lowConfidence}

Dispatched(type, payload) ==
    lastDispatch' = [type |-> type, id |-> NoCard, payload |-> payload, before |-> scanner]

Dispatch_startScan ==
    /\ scanner' = startScan(scanner)
    /\ Dispatched("startScan", null)
    /\ UNCHANGED <<recognized, settingsVars, grading, collection, persistVars, flowVars, adds, scan, recognition, call>>

Dispatch_completeScan(payload) ==
    /\ scanner' = completeScan(scanner, payload)
    /\ Dispatched("completeScan", payload)
    /\ UNCHANGED <<recognized, settingsVars, grading, collection, persistVars, flowVars, adds, scan, recognition, call>>

Dispatch_scanError(payload) ==
    /\ scanner' = scanError(scanner, payload)
    /\ Dispatched("scanError", payload)
    /\ UNCHANGED <<recognized, settingsVars, grading, collection, persistVars, flowVars, adds, scan, recognition, call>>

Dispatch_resetScan ==
    /\ scanner' = resetScan(scanner)
    /\ Dispatched("resetScan", null)
    /\ UNCHANGED <<recognized, settingsVars, grading, collection, persistVars, flowVars, adds, scan, recognition, call>>

NextScanner ==
    \/ Dispatch_startScan
    \/ \E payload \in CompletePayloads : Dispatch_completeScan(payload)
    \/ \E payload \in ErrorPayloads : Dispatch_scanError(payload)
    \/ Dispatch_resetScan

SpecScanner == Init /\ [][NextScanner]_vars

\* C29: in every state the four reducers reach, isScanning equals
\* scanResult.isLoading and scanResult.error is unset while
\* scanResult.isLoading is true; a scanError leaves scanResult.card,
\* scanResult.confidence and lastScannedCard as they were before it.
C29_ScannerInvariants ==
    /\ scanner.isScanning = scanner.scanResult.isLoading
    /\ scanner.scanResult.isLoading => scanner.scanResult.error = NoError
    /\ lastDispatch.type = "scanError" =>
          /\ scanner.scanResult.card = lastDispatch.before.scanResult.card
          /\ scanner.scanResult.confidence = lastDispatch.before.scanResult.confidence
          /\ scanner.lastScannedCard = lastDispatch.before.lastScannedCard

\* a scanError dispatched while a scan is loading, after a completed scan
C29_Witness ==
    /\ lastDispatch.type = "scanError"
    /\ lastDispatch.before.scanResult.isLoading
    /\ lastDispatch.before.scanResult.error = NoError
    /\ scanner.scanResult.card # null
    /\ scanner.scanResult.error # NoError

---------------------------------------------------------------------------
(* StorageService called on its own, over any stored text                  *)

Settings == {UserSettings(d, n, o) : d \in BOOLEAN, n \in BOOLEAN, o \in BOOLEAN}

\* a card recognizeCard built from a grading, and its fallback card
GradedCard == Card("card_2", <<"Premium", "Trading Card">>, 0, Num(95))
FallbackCard == Card("card_1", <<"Unrecognized Card">>, 500, undefined)

SavedLists ==
    {<<>>, <<CollectionCard("card_1", 1, "T1")>>,
     <<CollectionCard("card_1", 2, "T1"), CollectionCard("card_2", 1, "T2")>>,
     <<Entry(GradedCard, 2, "T2"), Entry(FallbackCard, 1, "T1")>>}

\* what getItem can return for a key: nothing, text that does not parse, and
\* JSON text of either shape
StoredTexts ==
    {Null, Garbage}
    \cup {JSON_stringify(cs) : cs \in SavedLists}
    \cup {JSON_stringify_settings(s) : s \in {defaultSettings, UserSettings(TRUE, FALSE, TRUE)}}

InitStorage ==
    /\ InitRest
    /\ storage \in [{COLLECTION_KEY, SETTINGS_KEY} -> StoredTexts]

Call_saveCollection(cards, asyncStorageFails) ==
    /\ LET result == StorageService_saveCollection(storage,
                         StorageService_saveCollection_request(cards, "caller"),
                         asyncStorageFails)
       IN /\ storage' = result.storage
          /\ call' = [fn |-> "saveCollection", arg |-> Array(cards),
                      failed |-> asyncStorageFails, outcome |-> result.outcome,
                      error |-> result.error, value |-> null,
                      after |-> After(call).fn, afterArg |-> After(call).arg]
    /\ UNCHANGED <<recognized, settingsVars, lastDispatch, grading, collection, inflight, hook, lastChange, saveReport, flowVars, adds, scanVars>>

Call_loadCollection(asyncStorageFails) ==
    /\ LET result == StorageService_loadCollection(storage, asyncStorageFails)
       IN call' = [fn |-> "loadCollection", arg |-> null,
                   failed |-> asyncStorageFails, outcome |-> result.outcome,
                   error |-> "none", value |-> result.value,
                      after |-> After(call).fn, afterArg |-> After(call).arg]
    /\ UNCHANGED <<recognized, settingsVars, lastDispatch, grading, collection, persistVars, flowVars, adds, scanVars>>

Call_saveSettings(settings, asyncStorageFails) ==
    /\ LET result == StorageService_saveSettings(storage,
                         StorageService_saveSettings_request(settings, "caller"),
                         asyncStorageFails)
       IN /\ storage' = result.storage
          /\ call' = [fn |-> "saveSettings", arg |-> Object(settings),
                      failed |-> asyncStorageFails, outcome |-> result.outcome,
                      error |-> result.error, value |-> null,
                      after |-> After(call).fn, afterArg |-> After(call).arg]
    /\ UNCHANGED <<recognized, settingsVars, lastDispatch, grading, collection, inflight, hook, lastChange, saveReport, flowVars, adds, scanVars>>

Call_loadSettings(asyncStorageFails) ==
    /\ LET result == StorageService_loadSettings(storage, asyncStorageFails)
       IN call' = [fn |-> "loadSettings", arg |-> null,
                   failed |-> asyncStorageFails, outcome |-> result.outcome,
                   error |-> "none", value |-> result.value,
                      after |-> After(call).fn, afterArg |-> After(call).arg]
    /\ UNCHANGED <<recognized, settingsVars, lastDispatch, grading, collection, persistVars, flowVars, adds, scanVars>>

Call_clearAll(asyncStorageFails) ==
    /\ LET result == StorageService_clearAll(storage, asyncStorageFails)
       IN /\ storage' = result.storage
          /\ call' = [fn |-> "clearAll", arg |-> null,
                      failed |-> asyncStorageFails, outcome |-> result.outcome,
                      error |-> result.error, value |-> null,
                      after |-> After(call).fn, afterArg |-> After(call).arg]
    /\ UNCHANGED <<recognized, settingsVars, lastDispatch, grading, collection, inflight, hook, lastChange, saveReport, flowVars, adds, scanVars>>

NextStorage ==
    \/ \E cards \in SavedLists, fails \in BOOLEAN : Call_saveCollection(cards, fails)
    \/ \E fails \in BOOLEAN : Call_loadCollection(fails)
    \/ \E settings \in Settings, fails \in BOOLEAN : Call_saveSettings(settings, fails)
    \/ \E fails \in BOOLEAN : Call_loadSettings(fails)
    \/ \E fails \in BOOLEAN : Call_clearAll(fails)

SpecStorage == InitStorage /\ [][NextStorage]_vars

---------------------------------------------------------------------------
(* The settings screen: useSettingsViewModel, the toggles, and the settings *)
(* calls completing in AsyncStorage                                         *)

\* A render of the settings screen that builds a view model (first render, or
\* settings or isLoading changed), then the effect on [viewModel]:
\* viewModel.loadSettings() up to its await.
SettingsRoom == BagCardinality(inflight) < MaxSettingsCalls

RenderSettings ==
    /\ ~settingsHook.rendered
    /\ SettingsRoom
    /\ settingsState' = settings_setLoading(settingsState, TRUE)
    /\ settingsHook' = [mounted |-> TRUE, settings |-> settingsState.settings,
                        loading |-> settingsState.isLoading,
                        rendered |-> settingsState' = settingsState]
    /\ inflight' = Issue(inflight, StorageService_loadSettings_request(
                                      Caller("effect", settingsState.settings)))
    /\ settingsLog' = [settingsLog EXCEPT !.lateLoad = @ \/ settingsLog.loaded]
    /\ UNCHANGED <<recognized, collection, storage, hook, lastChange, saveReport, flowVars, adds, scanVars, call,
                   lastDispatch, grading>>

\* a toggle*Action of the view model the screen shows: dispatch the toggle,
\* then this.saveSettings()
ToggleAction(by, toggled) ==
    /\ settingsHook.mounted
    /\ settingsHook.rendered
    /\ SettingsRoom
    /\ settingsState' = toggled
    /\ settingsHook' = [settingsHook EXCEPT !.rendered = FALSE]
    /\ inflight' = Issue(inflight, SettingsViewModel_saveSettings_request(
                                      settingsHook, Caller(by, toggled.settings)))
    /\ settingsLog' = [settingsLog EXCEPT !.toggled = TRUE, !.afterToggle = toggled.settings]
    /\ UNCHANGED <<recognized, collection, storage, hook, lastChange, saveReport, flowVars, adds, scanVars, call,
                   lastDispatch, grading>>

toggleDarkModeAction == ToggleAction("toggleDarkModeAction", toggleDarkMode(settingsState))

toggleNotificationsAction ==
    ToggleAction("toggleNotificationsAction", toggleNotifications(settingsState))

toggleOfflineModeAction ==
    ToggleAction("toggleOfflineModeAction", toggleOfflineMode(settingsState))

\* SettingsViewModel.loadSettings after its await: setSettings(savedSettings).
\* React has rendered the store's last change by the time AsyncStorage answers.
LoadSettingsCompletes(req, asyncStorageFails) ==
    /\ BagIn(req, inflight)
    /\ req.fn = "loadSettings"
    /\ settingsHook.rendered
    /\ LET savedSettings == StorageService_loadSettings(storage, asyncStorageFails).value.fields
       IN /\ settingsState' = setSettings(settingsState, savedSettings)
          /\ settingsLog' = [settingsLog EXCEPT
                                !.loaded = TRUE,
                                !.overwritten = @ \/ (settingsLog.toggled
                                                      /\ savedSettings # settingsLog.afterToggle)]
    /\ settingsHook' = [settingsHook EXCEPT !.rendered = FALSE]
    /\ inflight' = inflight (-) SetToBag({req})
    /\ UNCHANGED <<recognized, collection, storage, hook, lastChange, saveReport, flowVars, adds, scanVars, call,
                   lastDispatch, grading>>

\* SettingsViewModel.saveSettings after its await: a failure is logged
SaveSettingsCompletes(req, asyncStorageFails) ==
    /\ BagIn(req, inflight)
    /\ req.fn = "saveSettings"
    /\ settingsHook.rendered
    /\ storage' = StorageService_saveSettings(storage, req, asyncStorageFails).storage
    /\ settingsLog' = [settingsLog EXCEPT
                          !.lastSave = [by |-> req.caller.by, after |-> req.caller.after,
                                        failed |-> asyncStorageFails]]
    /\ inflight' = inflight (-) SetToBag({req})
    /\ UNCHANGED <<recognized, collection, hook, lastChange, saveReport, flowVars, adds, scanVars, call,
                   settingsState, settingsHook, lastDispatch, grading>>

\* the settings an earlier session may have left under the settings key
InitSettings ==
    /\ InitRest
    /\ \E stored \in {Null, Garbage, JSON_stringify_settings(UserSettings(TRUE, TRUE, FALSE))} :
          storage = (COLLECTION_KEY :> Null) @@ (SETTINGS_KEY :> stored)

NextSettings ==
    \/ RenderSettings
    \/ toggleDarkModeAction
    \/ toggleNotificationsAction
    \/ toggleOfflineModeAction
    \/ \E req \in Requests, fails \in BOOLEAN : LoadSettingsCompletes(req, fails)
    \/ \E req \in Requests, fails \in BOOLEAN : SaveSettingsCompletes(req, fails)

SpecSettings == InitSettings /\ [][NextSettings]_vars

---------------------------------------------------------------------------
(* The collection slice over whole cards: addCard with the payload a view   *)
(* model builds from a card, and removeCard                                 *)

\* cards handed to an add: two ids, each under two names
Cards ==
    {Card(id, name, 0, Num(95)) :
        id \in Ids, name \in {<<"Premium", "Trading Card">>, <<"Unrecognized Card">>}}

\* dispatch(addCard({...card, quantity: 1, dateAdded: now}))
Dispatch_addCard(card, now) ==
    /\ QuantityOf(collection.cards, card.id) < MaxQty
    /\ LET collectionCard == Entry(card, 1, now)
       IN /\ collection' = addCard(collection, collectionCard)
          /\ lastDispatch' = [type |-> "addCard", id |-> card.id,
                              payload |-> collectionCard, before |-> collection.cards]
    /\ UNCHANGED <<recognized, settingsVars, grading, persistVars, flowVars, adds, scanVars, call>>

\* dispatch(removeCard(cardId))
Dispatch_removeCard(cardId) ==
    /\ collection' = removeCard(collection, cardId)
    /\ lastDispatch' = [type |-> "removeCard", id |-> cardId,
                        payload |-> null, before |-> collection.cards]
    /\ UNCHANGED <<recognized, settingsVars, grading, persistVars, flowVars, adds, scanVars, call>>

\* the card handed to an add is a fresh one, or an entry of the collection
\* (the card details screen is opened with the entry itself)
NextReducer ==
    \/ \E card \in Cards, now \in Timestamps : Dispatch_addCard(card, now)
    \/ \E i \in 1..Len(collection.cards), now \in Timestamps :
           Dispatch_addCard(collection.cards[i], now)
    \/ \E cardId \in Ids : Dispatch_removeCard(cardId)

SpecReducer == Init /\ [][NextReducer]_vars

---------------------------------------------------------------------------
(* CollectionViewModel's statistics over the cards of the collection *)

\* a price as JavaScript holds it: a number (in cents), a string (its text
\* in pieces: symbols and numerals), or null
NumberPrice(cents) == [type |-> "number", cents |-> cents, text |-> <<>>]
StringPrice(text) == [type |-> "string", cents |-> 0, text |-> text]
NullPrice == [type |-> "null", cents |-> 0, text |-> <<>>]

\* the numerals of the prices, with their value in cents
Numerals == [n \in {"25.50", "12.00", "3"} |->
                CASE n = "25.50" -> 2550 [] n = "12.00" -> 1200 [] n = "3" -> 300]

\* text.replace('$', ''): the text without its first '$'
WithoutFirstDollar(text) ==
    IF \E i \in 1..Len(text) : text[i] = "$"
    THEN LET i == CHOOSE i \in 1..Len(text) :
                      text[i] = "$" /\ \A j \in 1..(i - 1) : text[j] # "$"
         IN SubSeq(text, 1, i - 1) \o SubSeq(text, i + 1, Len(text))
    ELSE text

\* parseFloat(text): the number the text starts with, NaN if it starts with
\* anything else
parseFloat(text) ==
    IF text # <<>> /\ text[1] \in DOMAIN Numerals
    THEN [nan |-> FALSE, cents |-> Numerals[text[1]]]
    ELSE [nan |-> TRUE, cents |-> 0]

\* a price reading that parses the text as it is
priceOf_noStrip(cardPrice) ==
    IF cardPrice.type = "string"
    THEN LET parsed == parseFloat(cardPrice.text)
         IN IF parsed.nan THEN 0 ELSE parsed.cents
    ELSE IF cardPrice.type = "number" THEN cardPrice.cents
    ELSE 0

\* the price getTotalValue's reducer takes for a card, in cents
priceOf(cardPrice) ==
    IF cardPrice.type = "string"
    THEN LET parsed == parseFloat(WithoutFirstDollar(cardPrice.text))
         IN IF parsed.nan THEN 0 ELSE parsed.cents
    ELSE IF cardPrice.type = "number" THEN cardPrice.cents
    ELSE 0

RECURSIVE SumValue(_)
SumValue(cs) ==
    IF cs = <<>> THEN 0
    ELSE priceOf(Head(cs).price) * Head(cs).quantity + SumValue(Tail(cs))

\* getTotalValue(): the text `$${total.toFixed(2)}`, the total in cents
getTotalValue(cs) == [type |-> "string", text |-> <<"$">>, cents |-> SumValue(cs)]

\* a count that adds 1 per entry
CountBy_entries(cs, field, acc) ==
    LET counted == [v \in {cs[i][field] : i \in 1..Len(cs)} |->
                       Cardinality({i \in 1..Len(cs) : cs[i][field] = v})]
    IN counted @@ acc

\* cards.reduce((acc, card) => { acc[card[field]] = (acc[card[field]] || 0)
\* + card.quantity; return acc }, acc)
RECURSIVE CountBy(_, _, _)
CountBy(cs, field, acc) ==
    IF cs = <<>> THEN acc
    ELSE LET card == Head(cs)
             before == IF card[field] \in DOMAIN acc THEN acc[card[field]] ELSE 0
         IN CountBy(Tail(cs), field,
                    [v \in DOMAIN acc \cup {card[field]} |->
                        IF v = card[field] THEN before + card.quantity ELSE acc[v]])

\* the object {}
EmptyObject == [v \in {} |-> 0]

getCollectionStats(cs) ==
    [totalCards |-> getTotalCards(cs),
     uniqueCards |-> Len(cs),
     totalValue |-> getTotalValue(cs),
     rarityDistribution |-> CountBy(cs, "rarity", EmptyObject),
     conditionDistribution |-> CountBy(cs, "condition", EmptyObject)]

\* cards with a rarity, a condition and a price
StatCard(id, rarity, condition, price) ==
    [id |-> id, name |-> <<"Pikachu">>, rarity |-> rarity, condition |-> condition,
     price |-> price]

\* each id under six cards: every kind of price, two rarities, two conditions
StatCards ==
    {StatCard(id, k[1], k[2], k[3]) :
        id \in Ids,
        k \in {<<"Common", "Near Mint", StringPrice(<<"$", "25.50">>)>>,
               <<"Common", "Mint", NumberPrice(1200)>>,
               <<"Rare", "Mint", NullPrice>>,
               <<"Rare", "Mint", StringPrice(<<"EUR", "25.50">>)>>,
               <<"Common", "Mint", StringPrice(<<"free">>)>>,
               <<"Rare", "Near Mint", StringPrice(<<"25.50", "$">>)>>}}

\* adds of cards with statistics fields, and removes
NextStats ==
    \/ \E card \in StatCards : Dispatch_addCard(card, "T1")
    \/ \E i \in 1..Len(collection.cards) : Dispatch_addCard(collection.cards[i], "T2")
    \/ \E cardId \in Ids : Dispatch_removeCard(cardId)

SpecStats == Init /\ [][NextStats]_vars

---------------------------------------------------------------------------
(* The grading services called on their own, each on records of every shape *)

GradeFields == {"final", "corners", "edges", "surface", "centering"}

\* grades in tenths: every choice of present fields, and grades off the scale
GradeSets ==
    {[f \in GradeFields |->
        IF f \in present
        THEN XimilarGrades(Num(95), Num(80), Num(70), Num(60), Num(50))[f]
        ELSE undefined] : present \in SUBSET GradeFields}
    \cup {XimilarGrades(Num(120), Num(-10), Num(0), Num(105), Num(1000))}

ObjectLists ==
    {<<>>, <<XimilarObject("Card", Num(31))>>, <<XimilarObject("Card", undefined)>>,
     <<XimilarObject("Card", Num(30)), XimilarObject("Card", Num(90))>>,
     <<XimilarObject("Sleeve", Num(90)), XimilarObject("Card", Num(29))>>,
     <<XimilarObject("Sleeve", Num(90))>>}

TagSets ==
    {XimilarTags(d, a, side) : d \in {"absent", "OK", "Damaged"},
                               a \in {"absent", "Yes", "No"},
                               side \in {"absent", "Front", "Back"}}

\* final grades in tenths: the scale 0.0 .. 10.0 and a little beyond it
Grades == 0..105

\* grades handed to interpretGrade, in tenths: -0.5 .. 10.5
InterpretedGrades == (0 - 5)..105

\* records of a detected card with a final grade and nothing else
GradedRecords ==
    {RawRecord(TRUE, XimilarGrades(Num(g), undefined, undefined, undefined, undefined),
               <<XimilarObject("Card", Num(31))>>, XimilarTags("OK", "absent", "absent")) :
        g \in Grades}

\* records whose name parts vary: grades at and between the edges of the
\* adjectives, damaged or not, autographed or not, with and without a
\* category and a subcategory
NamedRecords ==
    {RawRecord(TRUE, XimilarGrades(g, undefined, undefined, undefined, undefined),
               <<XimilarObject("Card", Num(31))>>,
               CategoryTags(XimilarTags(d, a, "absent"), c, sub)) :
        g \in {undefined} \cup {Num(n) : n \in {0, 49, 50, 69, 70, 79, 80, 89, 90, 100}},
        d \in {"absent", "OK", "Damaged"}, a \in {"Yes", "No"},
        c \in {"absent", "", "Sport"}, sub \in {"absent", "", "Pokemon"}}

RawRecords ==
    {RawRecord(TRUE, g, o, t) : g \in GradeSets, o \in ObjectLists, t \in TagSets}
    \cup {RawRecord(FALSE, NoGrades, o, t) :
            o \in {<<>>, <<XimilarObject("Card", Num(31))>>},
            t \in {XimilarTags("absent", "absent", "absent"), XimilarTags("OK", "No", "Front")}}

\* XimilarApiService.processGradingResponse(record)
Call_processGradingResponse(record) ==
    /\ grading.fn = "none"
    /\ grading' = [fn |-> "processGradingResponse", request |-> NoRequest, records |-> <<record>>,
                   result |-> processGradingResponse(record)]
    /\ UNCHANGED <<recognized, settingsVars, lastDispatch, collection, persistVars, flowVars, adds, scanVars, call>>

\* gradeMultipleCards(imageUrls) of MockApiService.ts, the response holding
\* these records
Call_gradeMultipleCards(imageUrls, post, records) ==
    /\ grading.fn = "none"
    /\ grading' = [fn |-> "gradeMultipleCards", request |-> NoRequest, records |-> records,
                   result |-> MockApiService_gradeMultipleCards(imageUrls, post, records)]
    /\ UNCHANGED <<recognized, settingsVars, lastDispatch, collection, persistVars, flowVars, adds, scanVars, call>>

\* CameraService.recognizeCard(imageUri) when the grading response holds
\* this one record
Call_recognizeCard(imageUri, record, now) ==
    /\ grading.fn = "none"
    /\ LET env == [convert |-> "ok", upload |-> "https://i.ibb.co/card_image.jpg",
                   post |-> "200", data |-> [records |-> "one", record |-> record],
                   now |-> now]
       IN grading' = [fn |-> "recognizeCard", request |-> NoRequest, records |-> <<record>>,
                      result |-> CameraService_recognizeCard(imageUri, env)]
    /\ UNCHANGED <<recognized, settingsVars, lastDispatch, collection, persistVars, flowVars, adds, scanVars, call>>

\* CardModel.fromXimilarResponse(apiRecord, imageUri)
Call_fromXimilarResponse(apiRecord, imageUri, now) ==
    /\ grading.fn = "none"
    /\ grading' = [fn |-> "fromXimilarResponse", request |-> NoRequest, records |-> <<apiRecord>>,
                   result |-> Resolved([card |-> fromXimilarResponse(apiRecord, imageUri, now),
                                        confidence |-> 0, gradingResult |-> null])]
    /\ UNCHANGED <<recognized, settingsVars, lastDispatch, collection, persistVars, flowVars, adds, scanVars, call>>

\* XimilarApiService.gradeCard(imageUrl) while the collaborators do what env
\* says
Call_gradeCard(imageUrl, env) ==
    /\ grading.fn = "none"
    /\ grading' = [fn |-> "gradeCard",
                   request |->
                       [imageUrl |-> imageUrl, post |-> env.post,
                        route |-> gradeCard_route(imageUrl),
                        sent |-> LET url == processedImageUrl(imageUrl, env)
                                 IN IF url.outcome = "resolved" /\ isWebUrl(url.value)
                                    THEN url.value ELSE "none"],
                   records |-> <<env.data.record>>,
                   result |-> XimilarApiService_gradeCard(imageUrl, env)]
    /\ UNCHANGED <<recognized, settingsVars, lastDispatch, collection, persistVars, flowVars, adds, scanVars, call>>

\* interpretGrade called on two grades, by both services
Call_interpretGrade(g1, g2) ==
    /\ grading.fn = "none"
    /\ grading' = [fn |-> "interpretGrade", request |-> NoRequest,
                   records |-> <<[grade |-> g1], [grade |-> g2]>>,
                   result |->
                       Resolved([labels |-> <<interpretGrade(g1), interpretGrade(g2)>>,
                                 mockLabels |-> <<MockApiService_interpretGrade(g1),
                                                  MockApiService_interpretGrade(g2)>>])]
    /\ UNCHANGED <<recognized, settingsVars, lastDispatch, collection, persistVars, flowVars, adds, scanVars, call>>

\* one call in a run
NextNormalize ==
    \/ grading.fn = "none" /\ \E record \in RawRecords : Call_processGradingResponse(record)
    \/ grading.fn = "none" /\ \E record \in RawRecords :
           Call_gradeMultipleCards(<<"https://example.com/card.jpg">>, "200", <<record>>)
    \/ grading.fn = "none" /\ \E record \in Records, post \in {"200", "500"} :
           \/ Call_gradeMultipleCards(<<>>, post, <<record>>)
           \/ Call_gradeMultipleCards(<<"https://example.com/card.jpg">>, post, <<record>>)
    \/ grading.fn = "none" /\ \E r1 \in Records, r2 \in Records :
           Call_gradeMultipleCards(<<"https://example.com/card.jpg",
                                     "https://example.com/card.jpg">>, "200", <<r1, r2>>)
    \/ grading.fn = "none" /\ \E record \in RawRecords, now \in Instants :
           Call_recognizeCard("https://example.com/card.jpg", record, now)
    \/ grading.fn = "none" /\ \E record \in GradedRecords, now \in Instants :
           Call_recognizeCard("https://example.com/card.jpg", record, now)
    \/ grading.fn = "none" /\ \E imageUrl \in ImageUris \cup OtherUris, env \in Envs :
           Call_gradeCard(imageUrl, env)
    \/ grading.fn = "none" /\ \E g1 \in InterpretedGrades, g2 \in InterpretedGrades :
           (g1 <= g2) /\ Call_interpretGrade(Num(g1), Num(g2))
    \/ grading.fn = "none" /\ \E g \in InterpretedGrades :
           Call_interpretGrade(undefined, Num(g))
    \/ grading.fn = "none" /\ \E record \in NamedRecords :
           Call_recognizeCard("https://example.com/card.jpg", record, 1)
    \/ grading.fn = "none" /\ \E grade \in {undefined} \cup {Num(g) : g \in Grades} :
           Call_fromXimilarResponse([grade |-> grade], "file:///photos/card.jpg", 1)

SpecNormalize == Init /\ [][NextNormalize]_vars

---------------------------------------------------------------------------
(* CameraService.recognizeCard called on its own, again and again *)

\* recognizeCard(imageUri) while the collaborators do what env says
Recognize(imageUri, env) ==
    /\ recognized' = [previous |-> recognized.last,
                      last |-> [imageUri |-> imageUri, now |-> env.now,
                                failed |-> Failure(imageUri, env),
                                result |-> CameraService_recognizeCard(imageUri, env)]]
    /\ UNCHANGED <<settingsVars, lastDispatch, grading, collection, persistVars, flowVars, adds, scanVars, call>>

NextRecognize ==
    \E imageUri \in ImageUris, env \in EnvsAt(Instants) : Recognize(imageUri, env)

SpecRecognize == Init /\ [][NextRecognize]_vars

---------------------------------------------------------------------------
(* Properties *)

Copies(cs, id) == Cardinality({i \in 1..Len(cs) : cs[i].id = id})

Without(cs, id) == SelectSeq(cs, LAMBDA c : c.id # id)

\* C1: in every state reached by addCard dispatches (payload quantity 1),
\* removeCard dispatches and setCards of a list that saveCollection wrote,
\* the collection holds at most one entry per id and every quantity is >= 1.
C1_OneEntryPerId ==
    /\ \A id \in Ids : Copies(collection.cards, id) <= 1
    /\ \A i \in 1..Len(collection.cards) : collection.cards[i].quantity >= 1

\* two entries, one of them loaded back from storage and at the quantity cap
C1_Witness ==
    /\ Len(collection.cards) = 2
    /\ \E id \in Ids : adds[id] = -1 /\ QuantityOf(collection.cards, id) = MaxQty
    /\ storage[COLLECTION_KEY] = JSON_stringify(collection.cards)

\* C2: starting from a collection without id X, N adds of X (with operations on
\* other ids in between) leave exactly one entry for X, of quantity N; X then
\* accounts for N of the total count and for 1 of the unique count.
C2_RepeatedAdd ==
    \A id \in Ids :
        /\ adds[id] = 0 => id \notin IdsOf(collection.cards)
        /\ adds[id] >= 1 =>
              /\ Copies(collection.cards, id) = 1
              /\ QuantityOf(collection.cards, id) = adds[id]
              /\ getTotalCards(collection.cards)
                    = getTotalCards(Without(collection.cards, id)) + adds[id]
              /\ uniqueCards(collection.cards)
                    = uniqueCards(Without(collection.cards, id)) + 1

\* one id added up to the cap while another id was added too
C2_Witness ==
    /\ adds["card_1"] = MaxQty
    /\ adds["card_2"] >= 1

\* C3: two add flows for the same id that both started when the entry had
\* quantity N (0 when absent), with no removal in between, leave it at N + 2.
C3_NoLostUpdate ==
    \A f, g \in Flows :
        (/\ f # g
         /\ flow[f].pc = "done" /\ flow[g].pc = "done"
         /\ flow[f].payload.id = flow[g].payload.id
         /\ flow[f].startQty = flow[g].startQty
         /\ ~disturbed)
        => QuantityOf(collection.cards, flow[f].payload.id) = flow[f].startQty + 2

\* both flows were in flight over the same quantity and both have dispatched
C3_Witness ==
    /\ flow["ScannerViewModel"].pc = "done"
    /\ flow["CollectionViewModel"].pc = "done"
    /\ flow["ScannerViewModel"].payload.id = flow["CollectionViewModel"].payload.id
    /\ flow["ScannerViewModel"].startQty = flow["CollectionViewModel"].startQty
    /\ ~disturbed

\* C4: every addCard or removeCard dispatch that changes the in-memory
\* collection is eventually followed by a StorageService.saveCollection call
\* whose argument is the collection as it is after that change or a later one.
C4_SaveFollowsChange ==
    (lastChange.save = "unsaved") ~> (lastChange.save = "saveIssued")

\* C5: once mutations have stopped and every saveCollection in flight has
\* completed, in whatever order, the list stored under the collection key is
\* the final in-memory collection; in particular an id removed by
\* removeCardFromCollection is not in the stored list.  Stated for that case:
\* the last change was a removal, a save of the cards after it was called, and
\* AsyncStorage failed no call.
C5_FinalStateStored ==
    (Settled /\ lastChange = Saved(Changed("removeCard"), TRUE))
        => /\ storage[COLLECTION_KEY] = JSON_stringify(collection.cards)
           /\ IdsOf(StorageService_loadCollection(storage, FALSE).value.items)
                  \subseteq IdsOf(collection.cards)

\* C10: when a save started after a collection mutation fails, the failure
\* reaches the caller as a rejected promise or as an error recorded in the
\* store; CollectionViewModel.saveCollection and the auto-save effect do not
\* drop it.
C10_SaveFailureVisible ==
    saveReport.failed
        => (saveReport.outcome = "rejected" \/ collection.error # initialState.error)

C7_ConfidenceGate ==
    /\ recognition.by \in {"scanWithCamera", "scanFromLibrary"}
         => LET confidence == recognition.result.value.confidence
            IN /\ confidence < 30
                    => /\ recognition.dispatched = "scanError"
                       /\ recognition.message # NoError
               /\ confidence >= 30 => recognition.dispatched = "completeScan"
               /\ isValidConfidence(confidence) <=> recognition.dispatched = "completeScan"
    /\ scanner.scanResult.card # null => scanner.scanResult.confidence >= 30

C7_Witness ==
    /\ recognition.by = "scanFromLibrary"
    /\ recognition.result.value.confidence = 30
    /\ recognition.dispatched = "completeScan"
    /\ scanner.scanResult.confidence = 30
    /\ scanner.scanResult.error = NoError

\* C8: loadCollection resolves to a list of entries and loadSettings to a
\* settings record in every case; when the key is absent, when AsyncStorage
\* fails, or when the stored value is corrupt (it is not what the matching save
\* writes), loadCollection resolves to [] and loadSettings to the default
\* settings.
C8_LoadAlwaysUsable ==
    /\ call.fn = "loadCollection"
         => /\ call.outcome = "resolved"
            /\ call.value.type = "array"
            /\ (call.failed \/ storage[COLLECTION_KEY].form # "array")
                  => call.value = Array(<<>>)
    /\ call.fn = "loadSettings"
         => /\ call.outcome = "resolved"
            /\ call.value.type = "object"
            /\ (call.failed \/ storage[SETTINGS_KEY].form # "object")
                  => call.value = Object(defaultSettings)

\* C9: saveCollection, saveSettings and clearAll reject with an error whenever
\* the AsyncStorage operation fails; none of them resolves when the write or
\* the removal did not happen.
C9_SaveFailureRejects ==
    /\ call.fn \in {"saveCollection", "saveSettings", "clearAll"}
         => /\ call.failed => (call.outcome = "rejected" /\ call.error # "none")
            /\ ~call.failed => call.outcome = "resolved"
    /\ (call.fn = "saveCollection" /\ call.outcome = "resolved")
         => storage[COLLECTION_KEY] = JSON_stringify(call.arg.items)
    /\ (call.fn = "saveSettings" /\ call.outcome = "resolved")
         => storage[SETTINGS_KEY] = JSON_stringify_settings(call.arg.fields)
    /\ (call.fn = "clearAll" /\ call.outcome = "resolved")
         => (storage[COLLECTION_KEY] = Null /\ storage[SETTINGS_KEY] = Null)

C9_Witness ==
    /\ call.fn = "saveSettings"
    /\ call.failed
    /\ call.outcome = "rejected"
    /\ storage[SETTINGS_KEY] # JSON_stringify_settings(call.arg.fields)

\* two JavaScript objects agree on member k
SameMember(a, b, k) ==
    IF k \in DOMAIN a /\ k \in DOMAIN b THEN a[k] = b[k]
    ELSE IF k \in DOMAIN a THEN k \in OptionalKeys /\ a[k] = undefined
    ELSE IF k \in DOMAIN b THEN k \in OptionalKeys /\ b[k] = undefined
    ELSE TRUE

\* two lists of entries are equal in every field and in order
SameList(xs, ys) ==
    /\ Len(xs) = Len(ys)
    /\ \A i \in 1..Len(xs) : \A n \in 1..Len(Keys) : SameMember(xs[i], ys[i], Keys[n])

C12_SettingsPersisted ==
    (settingsLog.lastSave.by # "none" /\ ~settingsLog.lastSave.failed)
        => storage[SETTINGS_KEY] = JSON_stringify_settings(settingsLog.lastSave.after)

\* C13: once a loadSettings has completed, useSettingsViewModel starts no
\* further load, and a value set by a toggle is not overwritten by a later
\* setSettings from storage.
C13_LoadedOnce ==
    /\ ~settingsLog.lateLoad
    /\ ~settingsLog.overwritten

\* C14: removeCard(id) deletes the entry with that id if there is one and leaves
\* every other entry and their order unchanged; it changes nothing when the
\* id is absent; applied a second time it gives the same state.
C14_RemoveIdempotent ==
    lastDispatch.type = "removeCard"
        => LET before == lastDispatch.before
               id == lastDispatch.id
               k == FindIndex(before, id)
           IN /\ id \notin IdsOf(collection.cards)
              /\ k = 0 => collection.cards = before
              /\ k # 0 => collection.cards
                             = SubSeq(before, 1, k - 1) \o SubSeq(before, k + 1, Len(before))
              /\ removeCard(collection, id) = collection
              /\ CollectionModel_removeCard(before, id) = collection.cards

\* the first of two entries was removed
C14_Witness ==
    /\ lastDispatch.type = "removeCard"
    /\ Len(lastDispatch.before) = 2
    /\ lastDispatch.before[1].id = lastDispatch.id
    /\ Len(collection.cards) = 1

\* C15: addCard on an id already in the collection adds 1 to that entry's
\* quantity and changes nothing else: the entry keeps its dateAdded, its
\* position and its card fields, the other entries are unchanged, the
\* payload's card fields and timestamp are ignored; on a new id it appends one
\* entry with quantity 1 at the end.
C15_AddFrame ==
    lastDispatch.type = "addCard"
        => LET before == lastDispatch.before
               payload == lastDispatch.payload
               k == FindIndex(before, lastDispatch.id)
           IN /\ k # 0 => collection.cards = [before EXCEPT ![k].quantity = @ + 1]
              /\ k = 0 => /\ collection.cards = before \o <<payload>>
                          /\ payload.quantity = 1
              /\ CollectionModel_addCard(before, payload, payload.dateAdded) = collection.cards

\* an add on an existing id whose payload has another name and another
\* timestamp than the entry, which is not the last entry
C15_Witness ==
    /\ lastDispatch.type = "addCard"
    /\ Len(lastDispatch.before) = 2
    /\ lastDispatch.before[1].id = lastDispatch.id
    /\ lastDispatch.before[1].name # lastDispatch.payload.name
    /\ lastDispatch.before[1].dateAdded # lastDispatch.payload.dateAdded
    /\ collection.cards[1].quantity = 2

\* a grade of the source record, or 0 when the record does not have it
SourceGrade(record, field) ==
    IF record.grades[field].defined THEN record.grades[field].n ELSE 0

\* the primary detected object of a record: the first one named "Card", if
\* any; a record without objects has none
PrimaryObject(record) ==
    IF \A i \in 1..Len(record.objects) : record.objects[i].name # "Card" THEN 0
    ELSE CHOOSE i \in 1..Len(record.objects) :
             /\ record.objects[i].name = "Card"
             /\ \A j \in 1..Len(record.objects) : record.objects[j].name = "Card" => j >= i

ProbabilityOf(record, i) ==
    IF record.objects[i].prob.defined THEN record.objects[i].prob.n ELSE 0

\* the result of the last call for record i: the normalized result itself,
\* or the i-th of the batch
Normalized(i) ==
    IF grading.fn = "gradeMultipleCards" THEN grading.result.value[i]
    ELSE grading.result.value

NormalizeReturned ==
    /\ grading.fn \in {"processGradingResponse", "gradeMultipleCards"}
    /\ grading.result.outcome = "resolved"

\* C16: the tag-derived booleans of a normalized result are always defined:
\* isDamaged is false exactly when the Damaged tag is "OK" (absent gives true),
\* hasAutograph is true exactly when the Autograph tag is "Yes", isfront is
\* true exactly when the Side tag is "Front".
C16_TagBooleans ==
    NormalizeReturned =>
        \A i \in 1..Len(grading.records) :
            LET tags == grading.records[i].tags
                result == Normalized(i)
            IN /\ result.isDamaged \in BOOLEAN
               /\ result.hasAutograph \in BOOLEAN
               /\ result.isfront \in BOOLEAN
               /\ ~result.isDamaged <=> tags.Damaged = "OK"
               /\ tags.Damaged = "absent" => result.isDamaged
               /\ result.hasAutograph <=> tags.Autograph = "Yes"
               /\ result.isfront <=> tags.Side = "Front"

\* Damaged absent, Autograph "No", Side "Back": damaged, no autograph, not front
C16_Witness ==
    /\ grading.fn = "processGradingResponse"
    /\ grading.result.outcome = "resolved"
    /\ grading.records[1].tags = XimilarTags("absent", "No", "Back")
    /\ grading.result.value.isDamaged
    /\ ~grading.result.value.hasAutograph
    /\ ~grading.result.value.isfront

C18_NoGradesFails ==
    /\ grading.fn \in {"processGradingResponse", "gradeMultipleCards"}
         => \A i \in 1..Len(grading.records) :
               ~grading.records[i].hasGrades => grading.result.outcome = "rejected"
    /\ (grading.fn = "recognizeCard" /\ ~grading.records[1].hasGrades)
         => /\ grading.result.outcome = "resolved"
            /\ grading.result.value.card.name = <<"Unrecognized Card">>
            /\ grading.result.value.gradingResult = null

\* C19: two failing recognizeCard calls with the same image reference return
\* equal cards, the same id included, whatever the instants of the calls.
C19_FallbackDeterministic ==
    (/\ recognized.previous.failed
     /\ recognized.last.failed
     /\ recognized.previous.imageUri = recognized.last.imageUri)
        => recognized.last.result.value.card = recognized.previous.result.value.card

\* the banding table: lower edges in tenths, highest first
ConditionBands ==
    <<<<90, "Mint">>, <<80, "Near Mint/Mint">>, <<70, "Near Mint">>, <<60, "Excellent">>,
      <<50, "Very Good">>, <<40, "Good">>, <<30, "Fair">>, <<20, "Poor">>>>

\* the labels of the first band whose edge the grade reaches; below all of
\* them, the damaged labels
BandLabels(grade) ==
    IF \E i \in 1..Len(ConditionBands) : grade >= ConditionBands[i][1]
    THEN {ConditionBands[CHOOSE i \in 1..Len(ConditionBands) :
                             /\ grade >= ConditionBands[i][1]
                             /\ \A j \in 1..(i - 1) : grade < ConditionBands[j][1]][2]}
    ELSE {"Damaged", "Authentic (Damaged)"}

\* the final grade recognizeCard mapped: the record's, or 0 when absent
MappedGrade == SourceGrade(grading.records[1], "final")

RecognizedGraded ==
    /\ grading.fn = "recognizeCard"
    /\ grading.records[1].hasGrades

ConditionAdjective(grade, isDamaged) ==
    IF grade >= 50
    THEN <<CHOOSE a \in {"Premium", "Mint", "Excellent", "Good"} :
              \/ a = "Premium" /\ grade >= 90
              \/ a = "Mint" /\ grade >= 80 /\ grade < 90
              \/ a = "Excellent" /\ grade >= 70 /\ grade < 80
              \/ a = "Good" /\ grade < 70>>
    ELSE IF isDamaged THEN <<"Damaged">> ELSE <<>>

\* the grading result a successful recognizeCard call returned
Graded == grading.result.value.gradingResult

\* C21: the name of a card recognized from a grading result is, in this
\* order, the condition adjective (when one applies), the subcategory if
\* present else the category, and "(Autographed)" if hasAutograph; it is the
\* "Graded Card" name exactly when none of the parts applies; the price is 0.
C21_CardName ==
    (grading.fn = "recognizeCard" /\ grading.result.value.gradingResult # null) =>
        LET card == grading.result.value.card
            tags == grading.records[1].tags
            adjective == ConditionAdjective(Graded.finalGrade, Graded.isDamaged)
            subject == IF tags.Subcategory \notin {"absent", ""} THEN <<tags.Subcategory>>
                       ELSE IF Graded.category # "" THEN <<Graded.category>>
                       ELSE <<>>
            autograph == IF Graded.hasAutograph THEN <<"(Autographed)">> ELSE <<>>
            parts == adjective \o subject \o autograph
        IN /\ parts # <<>> => card.name = parts
           /\ card.name[1] = "Graded Card (" <=> parts = <<>>
           /\ card.price = 0

\* a damaged, autographed card graded 4.9 with a subcategory
C21_Witness ==
    /\ grading.fn = "recognizeCard"
    /\ grading.result.value.gradingResult # null
    /\ grading.result.value.card.name = <<"Damaged", "Pokemon", "(Autographed)">>
    /\ grading.records[1].tags.Category = "Sport"
    /\ grading.result.value.card.price = 0

\* price x quantity of an entry in cents, by the claim's three cases: a
\* number as is, a string with a currency symbol by its numeral, else 0
ClaimedValue(entry) ==
    LET price == entry.price
    IN entry.quantity *
       (IF price.type = "number" THEN price.cents
        ELSE IF price.type = "string" /\ Len(price.text) = 2
                /\ price.text[1] \in {"$", "EUR"} /\ price.text[2] \in DOMAIN Numerals
        THEN Numerals[price.text[2]]
        ELSE IF price.type = "string" /\ Len(price.text) = 2
                /\ price.text[2] \in {"$", "EUR"} /\ price.text[1] \in DOMAIN Numerals
        THEN Numerals[price.text[1]]
        ELSE 0)

RECURSIVE ClaimedTotal(_)
ClaimedTotal(cs) == IF cs = <<>> THEN 0 ELSE ClaimedValue(Head(cs)) + ClaimedTotal(Tail(cs))

\* C22 as stated: totalValue is a number, the sum over the entries of price
\* x quantity with a numeric price as is, a string price with a currency
\* symbol parsed to its value, and an unparsable price as 0.
C22_TotalValue ==
    collection.cards # <<>> =>
        LET totalValue == getTotalValue(collection.cards)
        IN /\ totalValue.type = "number"
           /\ totalValue.cents = ClaimedTotal(collection.cards)

\* the value of an entry when only a '$' is taken off a string price and the
\* string has to begin with the numeral after that
DollarValue(entry) ==
    LET price == entry.price
    IN entry.quantity *
       (IF price.type = "number" THEN price.cents
        ELSE IF price.type = "string" /\ price.text \in {<<"$", "25.50">>, <<"25.50", "$">>}
        THEN 2550
        ELSE 0)

RECURSIVE DollarTotal(_)
DollarTotal(cs) == IF cs = <<>> THEN 0 ELSE DollarValue(Head(cs)) + DollarTotal(Tail(cs))

\* C22, amended: getTotalValue returns the text "$" followed by the total to
\* two decimals, the total being the sum over the entries of price x
\* quantity, where a numeric price is used as is, a string price counts by
\* the number it begins with once its first '$' is removed, and any other
\* price (another currency symbol in front, no number, null) counts as 0.
C22_TotalValueAmended ==
    LET totalValue == getTotalValue(collection.cards)
    IN /\ totalValue.type = "string"
       /\ totalValue.text = <<"$">>
       /\ totalValue.cents = DollarTotal(collection.cards)

\* price "$25.50" quantity 2 and price 12.00 quantity 1 give "$63.00"
C22_Witness ==
    /\ Len(collection.cards) = 2
    /\ collection.cards[1].price = StringPrice(<<"$", "25.50">>)
    /\ collection.cards[1].quantity = 2
    /\ collection.cards[2].price = NumberPrice(1200)
    /\ collection.cards[2].quantity = 1
    /\ getTotalValue(collection.cards).cents = 6300

\* the summed quantity of the entries with a value of a field
QuantityWith(cs, field, v) ==
    LET with == SelectSeq(cs, LAMBDA c : c[field] = v)
    IN SumQuantity(with)

RECURSIVE SumCounts(_, _)
SumCounts(counts, values) ==
    IF values = {} THEN 0
    ELSE LET v == CHOOSE v \in values : TRUE
         IN counts[v] + SumCounts(counts, values \ {v})

\* C23: after any adds and removes, each distribution maps exactly the values
\* the entries have to the summed quantity of the entries with that value,
\* the counts of each distribution add up to the total count, the total
\* count is the sum of the quantities, and the unique count is the number of
\* entries.
C23_StatsConsistent ==
    LET cs == collection.cards
        stats == getCollectionStats(cs)
    IN /\ \A field \in {"rarity", "condition"} :
             LET counts == IF field = "rarity" THEN stats.rarityDistribution
                           ELSE stats.conditionDistribution
             IN /\ DOMAIN counts = {cs[i][field] : i \in 1..Len(cs)}
                /\ \A v \in DOMAIN counts : counts[v] = QuantityWith(cs, field, v)
                /\ SumCounts(counts, DOMAIN counts) = stats.totalCards
       /\ stats.totalCards = SumQuantity(cs)
       /\ stats.uniqueCards = Cardinality(IdsOf(cs))
       /\ stats.uniqueCards = Len(cs)

\* two entries of one rarity and two conditions, three cards in all, after a
\* remove
C23_Witness ==
    /\ lastDispatch.type = "removeCard"
    /\ Len(lastDispatch.before) = 2
    /\ Len(collection.cards) = 1
    /\ collection.cards[1].quantity = 2
    /\ getCollectionStats(collection.cards).rarityDistribution[collection.cards[1].rarity] = 2

\* the one error the claim gives a failed request
RequestErrors ==
    [p \in PostErrors |->
        CASE p = "401" -> <<"Authentication failed. Please check your API token.">>
          [] p = "429" -> <<"Rate limit exceeded. Please try again later.">>
          [] p = "ECONNABORTED" -> <<"Request timed out. Please check your internet connection.">>
          [] p = "400" -> <<"Invalid request. Please check the image format.">>
          [] p \in {"500", "503"} -> <<"Ximilar API server error. Please try again later.">>
          [] p = "noResponse" -> <<"Network error. Please check your internet connection.">>
          [] OTHER -> <<"Card grading failed: ", p>>]

\* a gradeCard call whose request was sent and failed
RequestFailed ==
    /\ grading.fn = "gradeCard"
    /\ grading.request.post \in PostErrors
    /\ grading.request.imageUrl = "https://example.com/card.jpg"

\* C24: gradeCard rejects after every failed request, with the one error of
\* the first case that applies: 401, 429, the code ECONNABORTED, 400, a
\* status of 500 or more, no response, and 'Card grading failed: <cause>'
\* for any other failure.
C24_ErrorMapping ==
    RequestFailed =>
        /\ grading.result.outcome = "rejected"
        /\ grading.result.error = RequestErrors[grading.request.post]

\* a request that timed out: it has no response either, and is reported as
\* a timeout
C24_Witness ==
    /\ RequestFailed
    /\ grading.request.post = "ECONNABORTED"
    /\ grading.result.error = <<"Request timed out. Please check your internet connection.">>

\* C25: of the reference handed to gradeCard: one that starts with http://
\* or https://, or a data: URI, is not classified as a local file; a local
\* file reference is not classified as a web URL; and a web URL is sent to
\* the API as it is, without file conversion or upload.
C25_ExclusiveClassification ==
    grading.fn = "gradeCard" =>
        LET uri == grading.request.imageUrl
            web == startsWith(uri, "http://") \/ startsWith(uri, "https://")
        IN /\ (web \/ startsWith(uri, "data:")) => ~isLocalFileUri(uri)
           /\ isLocalFileUri(uri) => ~isWebUrl(uri)
           /\ web => /\ grading.request.route = "as-is"
                     /\ grading.request.sent = uri

\* C26: a load does not discard an add: when the last dispatch that changed
\* the cards was an addCard (so the id was added and not removed since) and
\* every load and save has completed, the id is still in the in-memory
\* collection.
C26_LoadKeepsAdds ==
    (Settled /\ lastChange.by = "addCard")
        => \E id \in Shown : id \in IdsOf(collection.cards)

\* the collection after the cards of the last two recognitions were added
\* to an empty one
BothAdded ==
    addCard(addCard(initialState, Entry(recognized.previous.result.value.card, 1, "T1")),
            Entry(recognized.last.result.value.card, 1, "T2"))

\* C27: two recognitions by recognizeCard, successful or not, at two points
\* of a non-decreasing clock, give cards with different ids, and adding both
\* cards gives two entries.
C27_UniqueIds ==
    (/\ recognized.previous.now \in Instants
     /\ recognized.last.now \in Instants
     /\ recognized.previous.now <= recognized.last.now)
        => /\ recognized.previous.result.value.card.id # recognized.last.result.value.card.id
           /\ Len(BothAdded.cards) = 2

\* C28: of two grades g1 <= g2 in [0, 10] with one label, every grade
\* between them has that label too (each label covers one interval of
\* grades); a grade outside [0, 10] has the label of the nearest bound; an
\* undefined or null grade gives 'Not Graded'.
C28_ContiguousBands ==
    grading.fn = "interpretGrade" =>
        LET g1 == grading.records[1].grade
            g2 == grading.records[2].grade
            labels == grading.result.value.labels
        IN /\ (g1.defined /\ g1.n \in 0..100 /\ g2.n \in 0..100 /\ labels[1] = labels[2])
                 => \A g \in g1.n..g2.n : interpretGrade(Num(g)) = labels[1]
           /\ (g1.defined /\ g1.n < 0) => labels[1] = interpretGrade(Num(0))
           /\ g2.n > 100 => labels[2] = interpretGrade(Num(100))
           /\ ~g1.defined => labels[1] = "Not Graded"

=============================================================================
